---------------------------- MODULE Spec2Model ----------------------------
(***************************************************************************)
(* A model of the DOS 3.3 DSK filesystem of taeber/webdavfs: the disk      *)
(* image library (package dsk) and its projection as a WebDAV filesystem   *)
(* (package dos33).                                                        *)
(*                                                                         *)
(* Strings (file names, paths, file contents) are sequences of byte        *)
(* values, so that the byte-level conversions of the code (PathSafe,       *)
(* SplitN, TrimLeft, Sprintf) are computed and not assumed.  A disk image  *)
(* is a byte buffer of its real size; the buffer is stored by 256-byte     *)
(* sectors, the sectors that hold only zero bytes left out.                *)
(***************************************************************************)
EXTENDS Integers, Sequences, FiniteSets, TLC

VARIABLES
    disks,      \* dos33FS.disks: the loaded Diskettes, in loading order
    handles,    \* the webdav.File values returned by OpenFile and not yet closed
    ret,        \* the call being answered and what it returns; NoRet between calls
    lockReq     \* history: the last request to lock a file, while only
                \* removals have followed it, and the images before it

vars == <<disks, handles, ret, lockReq>>

---------------------------------------------------------------------------
(* Bounds of the model.                                                    *)

\* The most images given to newFileSystem.
MaxDisks == 2
\* The most handles open at one time.
MaxHandles == 1
\* The most "/"-separated components of a path given to the filesystem.
MaxDepth == 3
\* The request handlers that run at the same time.
NumHandlers == 2

---------------------------------------------------------------------------
(* Program constants.                                                      *)

SectorSize == 256
d13Size == 116480
d13VTOC == 56576
dskSize == 143360
dskVTOC == 69632
offsetNextTrack == 1
offsetNextSector == 2
entryOffsets == <<11, 46, 81, 116, 151, 186, 221>>
hiAsciiSpace == 160
ftText == 0
ftIntegerBasic == 1
ftApplesoftBasic == 2
ftBinary == 4
ftS == 8
ftRelocatable == 16
ftA == 32
ftB == 64

---------------------------------------------------------------------------
(* Strings as sequences of bytes.                                          *)

chSlash == 47
chDot == 46

RECURSIVE Concat(_)
\* The concatenation of a sequence of strings.
Concat(ss) == IF ss = <<>> THEN <<>> ELSE Head(ss) \o Concat(Tail(ss))

\* The index of the first occurrence of byte c in s, 0 when there is none.
IndexByte(s, c) ==
    IF \E i \in 1..Len(s) : s[i] = c
    THEN CHOOSE i \in 1..Len(s) : s[i] = c /\ \A j \in 1..(i - 1) : s[j] # c
    ELSE 0

\* The index of the last occurrence of byte c in s, 0 when there is none.
LastIndexByte(s, c) ==
    IF \E i \in 1..Len(s) : s[i] = c
    THEN CHOOSE i \in 1..Len(s) : s[i] = c /\ \A j \in (i + 1)..Len(s) : s[j] # c
    ELSE 0

RECURSIVE TrimLeft(_, _)
\* strings.TrimLeft(s, cutset) for a one-byte cutset: every leading c is removed.
TrimLeft(s, c) ==
    IF s # <<>> /\ Head(s) = c THEN TrimLeft(Tail(s), c) ELSE s

RECURSIVE TrimRight(_, _)
TrimRight(s, c) ==
    IF s # <<>> /\ s[Len(s)] = c THEN TrimRight(SubSeq(s, 1, Len(s) - 1), c) ELSE s

\* strings.SplitN(s, "/", 2): s itself when it holds no "/", otherwise the part
\* before the first "/" and the whole rest after it.
SplitN2(s) ==
    LET i == IndexByte(s, chSlash)
    IN  IF i = 0 THEN <<s>>
        ELSE <<SubSeq(s, 1, i - 1), SubSeq(s, i + 1, Len(s))>>

\* filepath.Base: the last element of a host path, trailing slashes removed;
\* "." for the empty path and "/" for a path of slashes only.
Base(path) ==
    IF path = <<>> THEN <<chDot>>
    ELSE LET p == TrimRight(path, chSlash)
             i == LastIndexByte(p, chSlash)
         IN  IF p = <<>> THEN <<chSlash>>
             ELSE SubSeq(p, i + 1, Len(p))

\* filepath.Ext: the suffix of the last element beginning at its final dot,
\* empty when the last element holds no dot.
Ext(path) ==
    LET d == LastIndexByte(path, chDot)
        s == LastIndexByte(path, chSlash)
    IN  IF d > s THEN SubSeq(path, d, Len(path)) ELSE <<>>

---------------------------------------------------------------------------
(* package dsk: the disk image.                                            *)

\* The buffer of an image is held by sectors: a function from the numbers of
\* the 256-byte sectors that hold a non-zero byte to their bytes; the bytes
\* of every other sector of the buffer are zero.

\* Byte i of buffer b.
ByteAt(b, i) ==
    IF (i \div SectorSize) \in DOMAIN b
    THEN b[i \div SectorSize][(i % SectorSize) + 1]
    ELSE 0

\* Whether two buffers of one size hold the same bytes.
SameBytes(a, b) ==
    \A n \in DOMAIN a \cup DOMAIN b :
        \A k \in 1..SectorSize :
            ByteAt(a, n * SectorSize + k - 1) = ByteAt(b, n * SectorSize + k - 1)

\* word: a little-endian 16-bit unsigned integer at offset i of buffer b.
word(b, i) == ByteAt(b, i) + 256 * ByteAt(b, i + 1)

\* vtocOffset: where the VTOC sector starts; panics on an unexpected size.
vtocOffset(size) ==
    IF size = d13Size THEN [panic |-> FALSE, off |-> d13VTOC]
    ELSE IF size = dskSize THEN [panic |-> FALSE, off |-> dskVTOC]
    ELSE [panic |-> TRUE, off |-> 0]

\* LoadDiskette, for a host file that can be opened and read in full: the
\* Diskette holds the file's bytes, and is named by the path's base name
\* without its extension.  vtoc is the offset in bytes at which the slice
\* dsk.vtoc starts.
LoadDiskette(path, file) ==
    LET name == Base(path)
        ext  == Ext(name)
        v    == vtocOffset(file.size)
    IN  [panic    |-> v.panic,
         path     |-> path,
         name     |-> SubSeq(name, 1, Len(name) - Len(ext)),
         readonly |-> file.readonly,
         size     |-> file.size,
         bytes    |-> file.bytes,
         vtoc     |-> v.off]

\* dsk.vtoc[i]
Vtoc(dsk, i) == ByteAt(dsk.bytes, dsk.vtoc + i)

NumTracks(dsk) == Vtoc(dsk, 52)
SectorsPerTrack(dsk) == Vtoc(dsk, 53)
Volume(dsk) == Vtoc(dsk, 6)

\* rawSector: the offset in dsk.bytes at which the sector's 256-byte slice
\* starts.  It panics through its own check when track > NumTracks or
\* sector > SectorsPerTrack, and through the slice expression when the
\* 256 bytes do not lie within the buffer.
rawSector(dsk, track, sector) ==
    LET offset == (track * SectorsPerTrack(dsk) + sector) * SectorSize
    IN  IF track > NumTracks(dsk) \/ sector > SectorsPerTrack(dsk)
        THEN [panic |-> TRUE, off |-> 0]
        ELSE IF offset + SectorSize > dsk.size
        THEN [panic |-> TRUE, off |-> 0]
        ELSE [panic |-> FALSE, off |-> offset]

---------------------------------------------------------------------------
(* package dsk: the File Descriptive Entry.  A FileEntry is a slice of the *)
(* image buffer: the model holds the offset in dsk.bytes at which it       *)
(* starts, so an entry always shows the current bytes of the image.        *)

\* f[i] for the FileEntry starting at offset f of dsk.bytes
EntryByte(dsk, f, i) == ByteAt(dsk.bytes, f + i)

IsEmpty(dsk, f) == EntryByte(dsk, f, 0) = 0
IsDeleted(dsk, f) == EntryByte(dsk, f, 0) = 255
IsLocked(dsk, f) == EntryByte(dsk, f, 2) >= 128
Type(dsk, f) == EntryByte(dsk, f, 2) % 128
SectorsUsed(dsk, f) == word(dsk.bytes, f + 33)

\* firstTSList: (track, sector) of the entry's first T/S list
firstTSList(dsk, f) ==
    IF IsDeleted(dsk, f)
    THEN <<EntryByte(dsk, f, 32), EntryByte(dsk, f, 1)>>
    ELSE <<EntryByte(dsk, f, 0), EntryByte(dsk, f, 1)>>

RECURSIVE NameSize(_, _, _)
\* The loop of FileEntry.Name that drops trailing padding, started with
\* `size`: the size it ends with, or -1 when it reads f[-1] (an index out of
\* range, which panics).
NameSize(dsk, f, size) ==
    IF 3 + size - 1 < 0 THEN -1
    ELSE IF EntryByte(dsk, f, 3 + size - 1) = hiAsciiSpace
    THEN NameSize(dsk, f, size - 1)
    ELSE size

\* FileEntry.Name: the name field without its trailing padding.  The slice
\* expression f[0x03:][:size] panics for a negative size.
Name(dsk, f) ==
    LET size == NameSize(dsk, f, IF IsDeleted(dsk, f) THEN 29 ELSE 30)
    IN  IF size < 0 THEN [panic |-> TRUE, name |-> <<>>]
        ELSE [panic |-> FALSE,
              name  |-> [i \in 1..size |-> EntryByte(dsk, f, 3 + i - 1)]]

\* Filename.String: every byte without its high bit
String(name) == [i \in 1..Len(name) |-> name[i] % 128]

\* Filename.PathSafe: an inverted byte (high bit clear) gets bit 0x40 set, a
\* normal byte loses its high bit.
PathSafeByte(ch) ==
    IF ch < 128
    THEN (IF (ch \div 64) % 2 = 0 THEN ch + 64 ELSE ch)
    ELSE ch % 128

PathSafe(name) == [i \in 1..Len(name) |-> PathSafeByte(name[i])]

\* A variant of FileTypeString that gives "?" for a type that is none of
\* the eight defined ones.
FileTypeStringAny(ft) ==
    CASE ft = ftText           -> [panic |-> FALSE, s |-> <<84>>]
      [] ft = ftIntegerBasic   -> [panic |-> FALSE, s |-> <<73>>]
      [] ft = ftApplesoftBasic -> [panic |-> FALSE, s |-> <<65>>]
      [] ft = ftBinary         -> [panic |-> FALSE, s |-> <<66>>]
      [] ft = ftS              -> [panic |-> FALSE, s |-> <<83>>]
      [] ft = ftRelocatable    -> [panic |-> FALSE, s |-> <<82>>]
      [] ft = ftA              -> [panic |-> FALSE, s |-> <<65>>]
      [] ft = ftB              -> [panic |-> FALSE, s |-> <<66>>]
      [] OTHER                 -> [panic |-> FALSE, s |-> <<63>>]

\* FileType.String: the letter of a file type; panics when the type is none
\* of the eight defined ones.
FileTypeString(ft) ==
    CASE ft = ftText           -> [panic |-> FALSE, s |-> <<84>>]   \* "T"
      [] ft = ftIntegerBasic   -> [panic |-> FALSE, s |-> <<73>>]   \* "I"
      [] ft = ftApplesoftBasic -> [panic |-> FALSE, s |-> <<65>>]   \* "A"
      [] ft = ftBinary         -> [panic |-> FALSE, s |-> <<66>>]   \* "B"
      [] ft = ftS              -> [panic |-> FALSE, s |-> <<83>>]   \* "S"
      [] ft = ftRelocatable    -> [panic |-> FALSE, s |-> <<82>>]   \* "R"
      [] ft = ftA              -> [panic |-> FALSE, s |-> <<65>>]   \* "A"
      [] ft = ftB              -> [panic |-> FALSE, s |-> <<66>>]   \* "B"
      [] OTHER                 -> [panic |-> TRUE, s |-> <<>>]

---------------------------------------------------------------------------
(* package dsk: the catalog.                                               *)

\* A variant of SectorEntries that leaves the deleted entries out as well.
SectorEntriesLive(dsk, cat) ==
    SelectSeq([k \in 1..Len(entryOffsets) |-> cat + entryOffsets[k]],
              LAMBDA f : ~IsEmpty(dsk, f) /\ ~IsDeleted(dsk, f))

\* The entries of the catalog sector starting at offset cat, in slot order,
\* the never-used ones (first byte 0x00) left out.
SectorEntries(dsk, cat) ==
    SelectSeq([k \in 1..Len(entryOffsets) |-> cat + entryOffsets[k]],
              LAMBDA f : ~IsEmpty(dsk, f))

RECURSIVE CatalogLoop(_, _, _, _)
\* The loop of Diskette.Catalog with `catalog` the offset of the sector last
\* read (at first the VTOC) and `entries` the entries gathered so far.  The
\* loop has no exit but a next-track byte of zero: when it comes back to a
\* sector it has read (`seen`), it runs forever.
CatalogLoop(dsk, catalog, seen, entries) ==
    LET next == rawSector(dsk,
                          ByteAt(dsk.bytes, catalog + offsetNextTrack),
                          ByteAt(dsk.bytes, catalog + offsetNextSector))
        more == entries \o SectorEntries(dsk, next.off)
    IN  IF next.panic THEN [status |-> "panic", entries |-> entries]
        ELSE IF ByteAt(dsk.bytes, next.off + offsetNextTrack) = 0
        THEN [status |-> "ok", entries |-> more]
        ELSE IF next.off \in seen
        THEN [status |-> "loop", entries |-> more]
        ELSE CatalogLoop(dsk, next.off, seen \cup {next.off}, more)

\* Diskette.Catalog: all the files on disk
Catalog(dsk) == CatalogLoop(dsk, dsk.vtoc, {}, <<>>)

---------------------------------------------------------------------------
(* package dsk: the Track/Sector lists and the file reader.                *)

\* The number of data-sector slots of a T/S list: offsets 0x0C, 0x0E, ...,
\* 0xFE.
numDataSectorOffsets == 122

\* tsList.DataSectorOffsets: the offset of slot k (from 1) in a T/S list.
DataSectorOffset(k) == 12 + 2 * (k - 1)

\* The 256 bytes of the sector slice that starts at offset off of dsk.bytes.
SectorBytes(dsk, off) == [i \in 1..SectorSize |-> ByteAt(dsk.bytes, off + i - 1)]

RECURSIVE SlotLoopSkip(_, _, _, _)
\* A variant of SlotLoop that passes over a slot whose track is zero and
\* goes on with the slots after it.
SlotLoopSkip(dsk, tsl, k, datas) ==
    LET used == {j \in k..numDataSectorOffsets :
                    ByteAt(dsk.bytes, tsl + DataSectorOffset(j)) # 0}
        next == CHOOSE j \in used : \A m \in used : j <= m
        data == rawSector(dsk, ByteAt(dsk.bytes, tsl + DataSectorOffset(next)),
                          ByteAt(dsk.bytes, tsl + DataSectorOffset(next) + 1))
    IN  IF used = {} THEN [panic |-> FALSE, datas |-> datas]
        ELSE IF data.panic THEN [panic |-> TRUE, datas |-> datas]
        ELSE SlotLoopSkip(dsk, tsl, next + 1, Append(datas, data.off))

RECURSIVE SlotLoop(_, _, _, _)
\* The inner loop of Diskette.DataSectors over the slots of the T/S list at
\* offset tsl, from slot k on: the loop is left at the first slot whose
\* track is zero; the data sector of every other slot is appended.
SlotLoop(dsk, tsl, k, datas) ==
    IF k > numDataSectorOffsets THEN [panic |-> FALSE, datas |-> datas]
    ELSE IF ByteAt(dsk.bytes, tsl + DataSectorOffset(k)) = 0
    THEN [panic |-> FALSE, datas |-> datas]
    ELSE IF rawSector(dsk, ByteAt(dsk.bytes, tsl + DataSectorOffset(k)),
                      ByteAt(dsk.bytes, tsl + DataSectorOffset(k) + 1)).panic
    THEN [panic |-> TRUE, datas |-> datas]
    ELSE SlotLoop(dsk, tsl, k + 1,
                  Append(datas,
                         rawSector(dsk, ByteAt(dsk.bytes, tsl + DataSectorOffset(k)),
                                   ByteAt(dsk.bytes, tsl + DataSectorOffset(k) + 1)).off))

RECURSIVE TSListLoop(_, _, _, _, _)
RECURSIVE TSListStep(_, _, _, _, _)
\* One round of the outer loop of DataSectors once the T/S list is read
\* (list) and its slots are walked (slots): on to the list named by bytes
\* 0x01 and 0x02.  The loop has no exit but a next track of zero: when it
\* comes back to a list it has read (`seen`), it runs forever.
TSListStep(dsk, list, seen, datas, slots) ==
    IF slots.panic THEN [status |-> "panic", datas |-> slots.datas]
    ELSE IF ByteAt(dsk.bytes, list + 1) # 0 /\ list \in seen
    THEN [status |-> "loop", datas |-> slots.datas]
    ELSE TSListLoop(dsk, ByteAt(dsk.bytes, list + 1), ByteAt(dsk.bytes, list + 2),
                    seen \cup {list}, slots.datas)

\* The outer loop of DataSectors, about to test t: `datas` are the offsets
\* of the data sectors gathered so far, in order.
TSListLoop(dsk, t, s, seen, datas) ==
    IF t = 0 THEN [status |-> "ok", datas |-> datas]
    ELSE IF rawSector(dsk, t, s).panic THEN [status |-> "panic", datas |-> datas]
    ELSE TSListStep(dsk, rawSector(dsk, t, s).off, seen, datas,
                    SlotLoop(dsk, rawSector(dsk, t, s).off, 1, datas))

\* Diskette.DataSectors: the sectors file uses for data, as the offsets at
\* which their slices start.  The name is formatted for the log first.
DataSectors(dsk, f) ==
    IF Name(dsk, f).panic THEN [status |-> "panic", datas |-> <<>>]
    ELSE TSListLoop(dsk, firstTSList(dsk, f)[1], firstTSList(dsk, f)[2], {}, <<>>)

\* The smaller of two numbers.
Min(a, b) == IF a < b THEN a ELSE b

RECURSIVE ReadHeaderLoopWhole(_, _, _, _, _)
\* A variant of ReadHeaderLoop that does not count the bytes it writes
\* against length: every sector is written whole.
ReadHeaderLoopWhole(dsk, datas, s, length, buf) ==
    IF s > Len(datas) THEN buf
    ELSE ReadHeaderLoopWhole(dsk, datas, s + 1, length,
                             buf \o SectorBytes(dsk, datas[s]))

RECURSIVE ReadHeaderLoop(_, _, _, _, _)
\* The loop of ReadAll over the data sectors of a file with a header, from
\* sector s (from 1) on: the first sector gives its first four bytes and
\* sets length; every sector gives bytes while length is positive; the loop
\* is left when length is zero.
ReadHeaderLoop(dsk, datas, s, length, buf) ==
    IF s > Len(datas) THEN buf
    ELSE LET data == SectorBytes(dsk, datas[s])
             len  == IF s = 1 THEN data[3] + 256 * data[4] ELSE length
             i    == IF s = 1 THEN 4 ELSE 0
             n    == Min(SectorSize - i, len)
             more == buf \o SubSeq(data, 1, i) \o SubSeq(data, i + 1, i + n)
         IN  IF len - n = 0 THEN more
             ELSE ReadHeaderLoop(dsk, datas, s + 1, len - n, more)

\* The bytes ReadAll gathers from the data sectors ds.datas of entry f.
ReadAllFrom(dsk, f, ds) ==
    IF ds.status # "ok" THEN [status |-> ds.status, bytes |-> <<>>]
    ELSE IF Type(dsk, f) \in {ftBinary, ftRelocatable}
    THEN [status |-> "ok", bytes |-> ReadHeaderLoop(dsk, ds.datas, 1, 0, <<>>)]
    ELSE [status |-> "ok",
          bytes  |-> Concat([s \in 1..Len(ds.datas) |-> SectorBytes(dsk, ds.datas[s])])]

\* Diskette.ReadAll: the contents of file f; panics on a type that is none
\* of the eight defined ones.  The capacity the buffer is made with does
\* not bound what is written to it.
ReadAll(dsk, f) ==
    IF FileTypeString(Type(dsk, f)).panic THEN [status |-> "panic", bytes |-> <<>>]
    ELSE ReadAllFrom(dsk, f, DataSectors(dsk, f))

---------------------------------------------------------------------------
(* fmt.Sprintf verbs used by the renderers.                                *)

RECURSIVE Dec(_)
\* %d of a natural number
Dec(n) == IF n < 10 THEN <<48 + n>> ELSE Dec(n \div 10) \o <<48 + (n % 10)>>

RECURSIVE PadLeft(_, _, _)
\* s padded on the left with byte c to at least w bytes
PadLeft(s, w, c) == IF Len(s) >= w THEN s ELSE PadLeft(<<c>> \o s, w, c)

HexDigit(d) == IF d < 10 THEN 48 + d ELSE 55 + d

RECURSIVE Hex(_)
\* %X of a natural number
Hex(n) == IF n < 16 THEN <<HexDigit(n)>> ELSE Hex(n \div 16) \o <<HexDigit(n % 16)>>

\* %.2X of a byte
Hex2(n) == PadLeft(Hex(n), 2, 48)

\* %+3d of int8(b)
SignedDec3(b) ==
    PadLeft(IF b < 128 THEN <<43>> \o Dec(b) ELSE <<45>> \o Dec(256 - b), 3, 32)

---------------------------------------------------------------------------
(* package dsk: the renderers of CATALOG.txt and VTOC.txt.                 *)

escCodeReset == <<27, 91, 48, 109>>                        \* ESC [0m
escCodeInverse == <<27, 91, 52, 55, 59, 51, 48, 109>>      \* ESC [47;30m

RECURSIVE ANSIEscapedFrom(_, _, _)
\* The loop of Filename.ANSIEscaped from byte i on, prevInverted telling
\* whether the byte before was inverted; the reset after the last byte
\* included.
ANSIEscapedFrom(name, i, prevInverted) ==
    IF i > Len(name)
    THEN (IF prevInverted THEN escCodeReset ELSE <<>>)
    ELSE IF name[i] < 128
    THEN (IF ~prevInverted THEN escCodeInverse ELSE <<>>)
         \o <<IF (name[i] \div 64) % 2 = 0 THEN name[i] + 64 ELSE name[i]>>
         \o ANSIEscapedFrom(name, i + 1, TRUE)
    ELSE (IF prevInverted THEN escCodeReset ELSE <<>>)
         \o <<name[i] % 128>>
         \o ANSIEscapedFrom(name, i + 1, FALSE)

\* Filename.ANSIEscaped
ANSIEscaped(name) == ANSIEscapedFrom(name, 1, FALSE)

\* The line of RunCatalog for entry f: "%c%c %03d %s\n" of the lock mark,
\* the type letter, SectorsUsed()%256 and the escaped name.
CatalogLine(dsk, f) ==
    LET t == FileTypeString(Type(dsk, f))
        n == Name(dsk, f)
    IN  IF t.panic \/ n.panic THEN [panic |-> TRUE, s |-> <<>>]
        ELSE [panic |-> FALSE,
              s |-> <<IF IsLocked(dsk, f) THEN 42 ELSE 32>> \o t.s \o <<32>>
                    \o PadLeft(Dec(SectorsUsed(dsk, f) % 256), 3, 48) \o <<32>>
                    \o ANSIEscaped(n.name) \o <<10>>]

\* A variant of Listed that keeps the deleted entries.
ListedWithDeleted(dsk, entries) == entries

\* The entries RunCatalog writes a line for: the ones not deleted.
Listed(dsk, entries) == SelectSeq(entries, LAMBDA f : ~IsDeleted(dsk, f))

\* How a call of RunCatalog ends: as Catalog ends when that does not
\* return, with a panic when a line's type letter or name panics, else "ok".
RunCatalogEndsOn(dsk, c) ==
    IF c.status # "ok" THEN c.status
    ELSE IF \E f \in {c.entries[k] : k \in 1..Len(c.entries)} :
                /\ ~IsDeleted(dsk, f)
                /\ FileTypeString(Type(dsk, f)).panic \/ Name(dsk, f).panic
    THEN "panic"
    ELSE "ok"

RunCatalogEnds(dsk) == RunCatalogEndsOn(dsk, Catalog(dsk))

\* RunCatalog: the text of CATALOG.txt, for a call that ends "ok".
RunCatalogLines(dsk, live) == Concat([k \in 1..Len(live) |-> CatalogLine(dsk, live[k]).s])

RunCatalog(dsk) ==
    <<10>> \o <<68, 73, 83, 75, 32, 86, 79, 76, 85, 77, 69, 32>> \o Dec(Volume(dsk))
    \o <<10, 10>>
    \o RunCatalogLines(dsk, Listed(dsk, Catalog(dsk).entries))
    \o <<10>>

\* A line of the VTOC report's header: the label, then "%3d  $%.2X\n" of b.
VTOCField(label, b) ==
    label \o PadLeft(Dec(b), 3, 32) \o <<32, 32, 36>> \o Hex2(b) \o <<10>>

\* The cell of the free-sector map for bit c of byte b: " ." when the bit is
\* set (free), " X" when it is clear (used).
VTOCCell(b, c) == IF (b \div (2 ^ c)) % 2 = 1 THEN <<32, 46>> ELSE <<32, 88>>

\* A row of the free-sector map: " %2d $%.2X ", eight cells from the byte
\* at bitmap+1, a space, cols-8 cells from the byte at bitmap+0, a newline.
VTOCRow(dsk, r, cols) ==
    LET bitmap == 56 + 4 * r
    IN  <<32>> \o PadLeft(Dec(r), 2, 32) \o <<32, 36>> \o Hex2(r) \o <<32>>
        \o Concat([c \in 1..8 |-> VTOCCell(Vtoc(dsk, bitmap + 1), c - 1)])
        \o <<32>>
        \o Concat([c \in 1..(IF cols > 8 THEN cols - 8 ELSE 0) |->
                       VTOCCell(Vtoc(dsk, bitmap + 0), c - 1)])
        \o <<10>>

\* Diskette.VTOCFile: the text of VTOC.txt
VTOCFile(dsk) ==
    LET cols == IF SectorsPerTrack(dsk) > 16 THEN 16 ELSE SectorsPerTrack(dsk)
        rows == NumTracks(dsk)
    IN  <<86, 111, 108, 117, 109, 101, 32, 84, 97, 98, 108, 101, 32, 111, 102, 32, 67, 111, 110, 116, 101, 110, 116, 115, 10>>
        \o <<45, 45, 45, 45, 45, 45, 45, 45, 45, 45, 45, 45, 45, 45, 45, 45, 45, 45, 45, 45, 45, 45, 45, 45, 10>>
        \o <<10>>
        \o VTOCField(<<32, 32, 84, 114, 97, 99, 107, 32, 111, 102, 32, 102, 105, 114, 115, 116, 32, 99, 97, 116, 97, 108, 111, 103, 32, 115, 101, 99, 116, 111, 114, 32, 32, 32, 32, 32, 32, 32, 32, 32, 32, 32, 32>>,
                     Vtoc(dsk, 1))
        \o VTOCField(<<32, 32, 83, 101, 99, 116, 111, 114, 32, 111, 102, 32, 102, 105, 114, 115, 116, 32, 99, 97, 116, 97, 108, 111, 103, 32, 115, 101, 99, 116, 111, 114, 32, 32, 32, 32, 32, 32, 32, 32, 32, 32, 32>>,
                     Vtoc(dsk, 2))
        \o VTOCField(<<32, 32, 68, 79, 83, 32, 118, 101, 114, 115, 105, 111, 110, 32, 117, 115, 101, 100, 32, 116, 111, 32, 73, 78, 73, 84, 32, 100, 105, 115, 107, 101, 116, 116, 101, 32, 32, 32, 32, 32, 32, 32, 32>>,
                     Vtoc(dsk, 3))
        \o VTOCField(<<32, 32, 68, 105, 115, 107, 101, 116, 116, 101, 32, 118, 111, 108, 117, 109, 101, 32, 110, 117, 109, 98, 101, 114, 32, 32, 32, 32, 32, 32, 32, 32, 32, 32, 32, 32, 32, 32, 32, 32, 32, 32, 32>>,
                     Vtoc(dsk, 6))
        \o VTOCField(<<32, 32, 77, 97, 120, 46, 32, 84, 114, 97, 99, 107, 47, 83, 101, 99, 116, 111, 114, 32, 112, 97, 105, 114, 115, 32, 105, 110, 32, 97, 32, 84, 47, 83, 32, 108, 105, 115, 116, 32, 32, 32, 32>>,
                     Vtoc(dsk, 39))
        \o VTOCField(<<32, 32, 76, 97, 115, 116, 32, 116, 114, 97, 99, 107, 32, 119, 104, 101, 114, 101, 32, 115, 101, 99, 116, 111, 114, 115, 32, 119, 101, 114, 101, 32, 97, 108, 108, 111, 99, 97, 116, 101, 100, 32, 32>>,
                     Vtoc(dsk, 48))
        \o <<32, 32, 68, 105, 114, 101, 99, 116, 105, 111, 110, 32, 111, 102, 32, 116, 114, 97, 99, 107, 32, 97, 108, 108, 111, 99, 97, 116, 105, 111, 110, 40, 43, 49, 32, 111, 114, 32, 45, 49, 41, 32, 32>>
        \o SignedDec3(Vtoc(dsk, 49)) \o <<32, 32, 36>> \o Hex2(Vtoc(dsk, 49)) \o <<10>>
        \o VTOCField(<<32, 32, 84, 114, 97, 99, 107, 115, 32, 112, 101, 114, 32, 100, 105, 115, 107, 101, 116, 116, 101, 32, 40, 110, 111, 114, 109, 97, 108, 108, 121, 32, 51, 53, 41, 32, 32, 32, 32, 32, 32, 32, 32>>,
                     Vtoc(dsk, 52))
        \o VTOCField(<<32, 32, 83, 101, 99, 116, 111, 114, 115, 32, 112, 101, 114, 32, 116, 114, 97, 99, 107, 32, 40, 49, 51, 32, 111, 114, 32, 49, 54, 41, 32, 32, 32, 32, 32, 32, 32, 32, 32, 32, 32, 32, 32>>,
                     Vtoc(dsk, 53))
        \o <<32, 32, 66, 121, 116, 101, 115, 32, 112, 101, 114, 32, 115, 101, 99, 116, 111, 114, 32, 32, 32, 32, 32, 32, 32, 32, 32, 32, 32, 32, 32, 32, 32, 32, 32, 32, 32, 32, 32, 32, 32>>
        \o PadLeft(Dec(word(dsk.bytes, dsk.vtoc + 54)), 5, 32) \o <<32, 32, 36>>
        \o Hex2(Vtoc(dsk, 55)) \o Hex2(Vtoc(dsk, 54)) \o <<10>>
        \o <<10>>
        \o <<32, 32, 84, 114, 97, 99, 107, 32, 32, 83, 101, 99, 116, 111, 114, 32, 40, 88, 32, 61, 32, 117, 115, 101, 100, 44, 32, 46, 32, 61, 32, 102, 114, 101, 101, 41, 10>>
        \o <<32, 32, 32, 32, 32, 32, 32, 32>>
        \o Concat([i \in 1..cols |->
                       <<32>> \o Hex(i - 1) \o (IF i - 1 = 7 THEN <<32>> ELSE <<>>)])
        \o <<10>>
        \o Concat([r \in 1..rows |-> VTOCRow(dsk, r - 1, cols)])

---------------------------------------------------------------------------
(* package dos33: the special names of the projection.                     *)

snReadme == <<82, 69, 65, 68, 77, 69, 46, 116, 120, 116>>     \* "README.txt"
snDos == <<95, 100, 111, 115>>                                    \* "_dos"
snCatalog == <<67, 65, 84, 65, 76, 79, 71, 46, 116, 120, 116>>    \* "CATALOG.txt"
snVtoc == <<86, 84, 79, 67, 46, 116, 120, 116>>                \* "VTOC.txt"
\* "%s,locked"
snLock(filename) == filename \o <<44, 108, 111, 99, 107, 101, 100>>
\* "_%s.garbage"
snDeleted(filename) == <<95>> \o filename \o <<46, 103, 97, 114, 98, 97, 103, 101>>

\* The contents of README.txt: the constant `readme`.
readme ==
    <<68, 79, 83, 32, 51, 46, 51, 32, 68, 83, 75, 32, 70, 105, 108, 101,
      115, 121, 115, 116, 101, 109, 32, 70, 111, 108, 100, 101, 114, 32,
      83, 116, 114, 117, 99, 116, 117, 114, 101, 10, 10, 84, 79, 68, 79,
      58, 32, 117, 112, 100, 97, 116, 101, 32, 119, 105, 116, 104, 32, 110,
      101, 119, 32, 115, 116, 114, 117, 99, 116, 117, 114, 101, 10, 10, 69,
      97, 99, 104, 32, 68, 83, 75, 32, 105, 115, 32, 114, 101, 112, 114,
      101, 115, 101, 110, 116, 101, 100, 32, 97, 115, 32, 97, 32, 102, 111,
      108, 100, 101, 114, 32, 119, 105, 116, 104, 32, 116, 104, 101, 32,
      102, 111, 108, 108, 111, 119, 105, 110, 103, 32, 102, 105, 108, 101,
      115, 32, 97, 110, 100, 32, 102, 111, 108, 100, 101, 114, 115, 46, 10,
      10, 32, 32, 102, 105, 108, 101, 115, 47, 32, 32, 32, 32, 32, 32, 82,
      101, 97, 100, 45, 111, 110, 108, 121, 32, 118, 101, 114, 115, 105,
      111, 110, 115, 32, 111, 102, 32, 97, 108, 108, 32, 102, 105, 108,
      101, 115, 44, 32, 97, 115, 32, 114, 97, 119, 32, 98, 105, 110, 97,
      114, 121, 46, 10, 32, 32, 67, 65, 84, 65, 76, 79, 71, 32, 32, 32, 32,
      32, 97, 32, 99, 108, 111, 115, 101, 32, 97, 112, 112, 114, 111, 120,
      105, 109, 97, 116, 105, 111, 110, 32, 111, 102, 32, 114, 117, 110,
      110, 105, 110, 103, 32, 67, 65, 84, 76, 79, 71, 32, 102, 114, 111,
      109, 32, 68, 79, 83, 46, 10, 32, 32, 108, 111, 99, 107, 115, 47, 32,
      32, 32, 32, 32, 32, 65, 108, 108, 32, 108, 111, 99, 107, 101, 100,
      32, 102, 105, 108, 101, 115, 46, 32, 76, 111, 99, 107, 32, 97, 32,
      102, 105, 108, 101, 32, 98, 121, 32, 97, 100, 100, 105, 110, 103, 32,
      105, 116, 44, 32, 117, 110, 108, 111, 99, 107, 32, 98, 121, 32, 100,
      101, 108, 101, 116, 105, 110, 103, 32, 105, 116, 46, 10, 32, 32, 86,
      84, 79, 67, 32, 32, 32, 32, 32, 32, 32, 32, 86, 111, 108, 117, 109,
      101, 32, 84, 97, 98, 108, 101, 32, 111, 102, 32, 67, 111, 110, 116,
      101, 110, 116, 115, 32, 105, 110, 102, 111, 114, 109, 97, 116, 105,
      111, 110, 32, 116, 104, 97, 116, 32, 109, 105, 103, 104, 116, 32, 98,
      101, 32, 104, 101, 108, 112, 102, 117, 108, 46, 10, 10, 89, 111, 117,
      32, 99, 97, 110, 32, 101, 100, 105, 116, 32, 97, 110, 100, 32, 99,
      114, 101, 97, 116, 101, 32, 102, 105, 108, 101, 115, 32, 98, 121, 32,
      116, 121, 112, 101, 32, 117, 110, 100, 101, 114, 32, 116, 104, 101,
      115, 101, 32, 102, 111, 108, 100, 101, 114, 115, 58, 10, 32, 32, 97,
      112, 112, 108, 101, 115, 111, 102, 116, 47, 10, 32, 32, 105, 110,
      116, 98, 97, 115, 105, 99, 47, 10, 32, 32, 98, 105, 110, 97, 114,
      121, 47, 10, 32, 32, 116, 101, 120, 116, 47, 10, 32, 32, 97, 47, 10,
      32, 32, 98, 47, 10, 32, 32, 114, 47, 10, 32, 32, 115, 47, 10, 10, 70,
      111, 114, 32, 116, 104, 101, 32, 102, 111, 108, 108, 111, 119, 105,
      110, 103, 32, 34, 116, 101, 120, 116, 34, 32, 102, 111, 108, 100,
      101, 114, 115, 44, 32, 116, 104, 101, 32, 97, 112, 112, 114, 111,
      112, 114, 105, 97, 116, 101, 32, 99, 111, 110, 118, 101, 114, 115,
      105, 111, 110, 32, 116, 97, 107, 101, 115, 32, 112, 108, 97, 99, 101,
      58, 10, 32, 32, 97, 112, 112, 108, 101, 115, 111, 102, 116, 47, 10,
      32, 32, 105, 110, 116, 98, 97, 115, 105, 99, 47, 10, 32, 32, 116,
      101, 120, 116, 47, 10>>

---------------------------------------------------------------------------
(* package dos33: the nodes of the projection (the fileWrapper values).    *)
(* A node names the Diskette it shows by its index in dos33FS.disks (0:    *)
(* none) and, for a dskFile, holds the FileEntry; an in-memory file holds  *)
(* which text it was made with (gen).                                      *)

RootDir == [kind |-> "rootDir", disk |-> 0, file |-> 0, name |-> <<>>, gen |-> ""]
DskDir(d) == [kind |-> "dskDir", disk |-> d, file |-> 0, name |-> <<>>, gen |-> ""]
MemDir(d, name) == [kind |-> "memDir", disk |-> d, file |-> 0, name |-> name, gen |-> ""]
MemFile(d, name, gen) ==
    [kind |-> "memFile", disk |-> d, file |-> 0, name |-> name, gen |-> gen]
DskFile(d, f) == [kind |-> "dskFile", disk |-> d, file |-> f, name |-> <<>>, gen |-> ""]

\* anyDir.IsDir, anyFile.IsDir
IsDir(node) == node.kind \in {"rootDir", "dskDir", "memDir"}

\* The map m with key k set to v.
Put(m, k, v) == [x \in DOMAIN m \cup {k} |-> IF x = k THEN v ELSE m[x]]

\* The text an in-memory file is made with by newMemFile.
Content(ds, node) ==
    CASE node.gen = "readme"  -> readme
      [] node.gen = "catalog" -> RunCatalog(ds[node.disk])
      [] node.gen = "vtoc"    -> VTOCFile(ds[node.disk])
      [] OTHER                -> <<>>

RECURSIVE RootKids(_, _, _)
\* The loop of rootDir.Children over dfs.disks from disk i on.
RootKids(ds, i, kids) ==
    IF i > Len(ds) THEN kids
    ELSE RootKids(ds, i + 1, Put(kids, ds[i].name, DskDir(i)))

\* The name dskDir.Children and dskFile.Stat give entry f: its path-safe
\* name, as "_<name>.garbage" when the entry is deleted.
ProjectedName(dsk, f) ==
    LET n == Name(dsk, f)
        name == PathSafe(n.name)
    IN  [panic |-> n.panic,
         name  |-> IF IsDeleted(dsk, f) THEN snDeleted(name) ELSE name]

\* A variant of DskKidsStep that names the lock marker of a deleted entry
\* after the entry's path-safe name.
DskKidsStepSafeName(ds, d, f, kids) ==
    LET safe == PathSafe(Name(ds[d], f).name)
        withLock == IF IsLocked(ds[d], f)
                    THEN Put(kids, snLock(safe), MemFile(d, snLock(safe), "lock"))
                    ELSE kids
    IN  Put(withLock, ProjectedName(ds[d], f).name, DskFile(d, f))

\* One round of the loop of dskDir.Children: the lock marker of entry f when
\* it is locked, then the entry itself.
DskKidsStep(ds, d, f, kids) ==
    LET name == ProjectedName(ds[d], f).name
        withLock == IF IsLocked(ds[d], f)
                    THEN Put(kids, snLock(name), MemFile(d, snLock(name), "lock"))
                    ELSE kids
    IN  Put(withLock, name, DskFile(d, f))

RECURSIVE DskKids(_, _, _, _, _)
\* The loop of dskDir.Children over the catalog's entries from entry k on.
DskKids(ds, d, entries, k, kids) ==
    IF k > Len(entries) THEN [status |-> "ok", kids |-> kids]
    ELSE IF ProjectedName(ds[d], entries[k]).panic
    THEN [status |-> "panic", kids |-> kids]
    ELSE DskKids(ds, d, entries, k + 1, DskKidsStep(ds, d, entries[k], kids))

\* The children of the "_dos" directory of disk d.
DosKids(d) ==
    Put(Put(<<>>, snCatalog, MemFile(d, snCatalog, "catalog")),
        snVtoc, MemFile(d, snVtoc, "vtoc"))

\* Children of a node: the map from names to nodes, with how the call ends
\* ("ok", "panic", or "loop" when it does not return).  dskDir.Children
\* renders CATALOG.txt and VTOC.txt first, then walks the catalog.
DskDirChildren(ds, d, run, cat) ==
    IF run # "ok" THEN [status |-> run, kids |-> <<>>]
    ELSE IF cat.status # "ok" THEN [status |-> cat.status, kids |-> <<>>]
    ELSE DskKids(ds, d, cat.entries, 1, Put(<<>>, snDos, MemDir(d, snDos)))

Children(ds, node) ==
    CASE node.kind = "rootDir" ->
           [status |-> "ok",
            kids   |-> RootKids(ds, 1, Put(<<>>, snReadme, MemFile(0, snReadme, "readme")))]
      [] node.kind = "memDir" -> [status |-> "ok", kids |-> DosKids(node.disk)]
      [] node.kind = "dskDir" ->
           DskDirChildren(ds, node.disk, RunCatalogEnds(ds[node.disk]),
                          Catalog(ds[node.disk]))
      [] OTHER -> [status |-> "ok", kids |-> <<>>]

\* fileInfo, without its modification time
FileInfo(name, size, isDir) == [name |-> name, size |-> size, isDir |-> isDir]
NoInfo == FileInfo(<<>>, 0, FALSE)

\* The Stat method of a node.  The size of a dskFile is the uint16 product
\* SectorsUsed() * SectorSize, widened to int64 afterwards.
NodeStat(ds, node) ==
    CASE node.kind = "rootDir" -> [err |-> "nil", info |-> FileInfo(<<>>, 0, TRUE)]
      [] node.kind = "memDir" -> [err |-> "nil", info |-> FileInfo(node.name, 0, TRUE)]
      [] node.kind = "dskDir" ->
           [err |-> "nil", info |-> FileInfo(ds[node.disk].name, 0, TRUE)]
      [] node.kind = "memFile" ->
           [err |-> "nil", info |-> FileInfo(node.name, Len(Content(ds, node)), FALSE)]
      [] node.kind = "dskFile" ->
           LET n == ProjectedName(ds[node.disk], node.file)
           IN  IF n.panic THEN [err |-> "panic", info |-> NoInfo]
               ELSE [err |-> "nil",
                     info |-> FileInfo(n.name,
                                       (SectorsUsed(ds[node.disk], node.file)
                                            * SectorSize) % 65536,
                                       FALSE)]

\* readDir: the FileInfo of every child.  The code ranges over a map, so the
\* order of the listing is unspecified: the listing is modelled as the set
\* of its elements (the children's names are the keys of the map, so no two
\* elements are equal).
readDirOf(ds, c, stats) ==
    IF c.status # "ok" THEN [err |-> c.status, list |-> {}]
    ELSE IF \E st \in stats : st.err = "panic" THEN [err |-> "panic", list |-> {}]
    ELSE [err |-> "nil", list |-> {st.info : st \in stats}]

readDirIn(ds, c) ==
    readDirOf(ds, c, {NodeStat(ds, c.kids[k]) : k \in DOMAIN c.kids})

readDir(ds, node) ==
    IF ~IsDir(node) THEN [err |-> "ErrUnsupported", list |-> {}]
    ELSE readDirIn(ds, Children(ds, node))

RECURSIVE walk(_, _, _)
RECURSIVE walkChild(_, _, _)
\* A variant of walkChild that descends into a child without asking whether
\* it is a directory.
walkChildAny(ds, split, c) ==
    IF c.status # "ok" THEN [err |-> c.status, node |-> RootDir]
    ELSE IF split[1] \notin DOMAIN c.kids
    THEN [err |-> "ErrNotExist", node |-> RootDir]
    ELSE IF Len(split) = 1 THEN [err |-> "nil", node |-> c.kids[split[1]]]
    ELSE walk(ds, c.kids[split[1]], split[2])

\* The body of walk once the path is split at its first "/" (split) and the
\* parent's children are read (c).
walkChild(ds, split, c) ==
    IF c.status # "ok" THEN [err |-> c.status, node |-> RootDir]
    ELSE IF split[1] \notin DOMAIN c.kids
    THEN [err |-> "ErrNotExist", node |-> RootDir]
    ELSE IF Len(split) = 1 THEN [err |-> "nil", node |-> c.kids[split[1]]]
    ELSE IF IsDir(c.kids[split[1]]) THEN walk(ds, c.kids[split[1]], split[2])
    ELSE [err |-> "ErrInvalid", node |-> RootDir]

\* walk: the node pathname names below parent, or the error.
walk(ds, parent, pathname) ==
    IF pathname = <<>> THEN [err |-> "nil", node |-> parent]
    ELSE walkChild(ds, SplitN2(pathname), Children(ds, parent))

---------------------------------------------------------------------------
(* package dos33: the filesystem calls.                                    *)

\* What a call returned: the call (op, name, name2, create, h) and its
\* result (err, and the node, FileInfo or listing it gives).  err is "nil",
\* the error returned, or "panic" / "loop" when the call panics or does not
\* return.
Ret(op, name, name2, create, h, err, node, info, list, out) ==
    [op |-> op, name |-> name, name2 |-> name2, create |-> create, h |-> h,
     err |-> err, node |-> node, info |-> info, list |-> list, out |-> out]

\* What an open file holds besides its node: an in-memory file the text it
\* was made with, the "_dos" directory the texts of its two files.
Snap(ds, node) ==
    CASE node.kind = "memFile" -> <<Content(ds, node)>>
      [] node.kind = "memDir" ->
           <<RunCatalog(ds[node.disk]), VTOCFile(ds[node.disk])>>
      [] OTHER -> <<>>

\* dos33FS.OpenFile: the flag and the permissions are not looked at.
OpenFileResult(ds, name, create) == walk(ds, RootDir, TrimLeft(name, chSlash))

\* dos33FS.Stat
StatOf(ds, w) ==
    IF w.err # "nil" THEN [err |-> w.err, info |-> NoInfo] ELSE NodeStat(ds, w.node)

StatResult(ds, name) == StatOf(ds, walk(ds, RootDir, TrimLeft(name, chSlash)))

\* dos33FS.Mkdir, dos33FS.RemoveAll, dos33FS.Rename: the image after the
\* call and the error returned.
MkdirResult(ds, name) == [disks |-> ds, err |-> "ErrUnsupported"]
RemoveAllResult(ds, name) == [disks |-> ds, err |-> "ErrUnsupported"]
RenameResult(ds, oldName, newName) == [disks |-> ds, err |-> "ErrUnsupported"]

\* Readdir of an open file: a directory lists its children as they are at
\* the call ("_dos": as they were made at the open), a file gives
\* ErrUnsupported.
ReaddirResult(ds, hd) ==
    CASE hd.node.kind = "memDir" ->
           [err  |-> "nil",
            list |-> {FileInfo(snCatalog, Len(hd.snap[1]), FALSE),
                      FileInfo(snVtoc, Len(hd.snap[2]), FALSE)}]
      [] hd.node.kind \in {"rootDir", "dskDir"} -> readDir(ds, hd.node)
      [] OTHER -> [err |-> "ErrUnsupported", list |-> {}]

\* A variant of WriteResult that answers every Write alike.
WriteResultUnsupported(hd) == "ErrUnsupported"

\* Write on an open file: anyDir.Write, dskFile.Write, memFile.Write
WriteResult(hd) == IF IsDir(hd.node) THEN "ErrUnsupported" ELSE "ErrInvalid"

---------------------------------------------------------------------------
(* The disk images and the paths the model runs on.                        *)

nDISK == <<68, 73, 83, 75>>              \* "DISK"
nD2 == <<68, 50>>                        \* "D2"
nHELLO == <<72, 69, 76, 76, 79>>         \* "HELLO"
nPROG == <<80, 82, 79, 71>>              \* "PROG"
nGIRL2 == <<71, 73, 82, 76, 50>>         \* "GIRL2"
nNEW == <<78, 69, 87>>                   \* "NEW"
nMissing == <<109, 105, 115, 115, 105, 110, 103>>

\* Hi-ASCII file names: normal characters have the high bit set, inverted
\* ones hold the low six bits only.
hiHELLO == <<200, 197, 204, 204, 207>>
invHELLO == <<8, 5, 12, 12, 15>>
hiPROG == <<208, 210, 207, 199>>
hiAPPLE == <<193, 208, 208, 204, 197>>
hiRAWDOS == <<210, 193, 215, 196, 207, 211>>
hiGIRL2 == <<199, 201, 210, 204, 178>>
hiPROGLocked == <<208, 210, 207, 199, 172, 236, 239, 227, 235, 229, 228>>
hiGarbage == <<223, 199, 201, 210, 204, 178, 174, 231, 225, 242, 226, 225, 231, 229>>

\* The 35 bytes of a File Descriptive Entry: bytes 0x00-0x02, the name
\* padded to 30 bytes, the sector count.  A deleted entry (b0 = 255) holds
\* its first T/S list track in the last byte of the name field.
MkEntry(b0, b1, b2, name, count, track) ==
    LET field == [i \in 1..30 |->
                     IF b0 = 255 /\ i = 30 THEN track
                     ELSE IF i <= Len(name) THEN name[i] ELSE hiAsciiSpace]
    IN  <<b0, b1, b2>> \o field \o <<count % 256, count \div 256>>

\* An entry slot never used: 35 zero bytes.
NoEntry == [i \in 1..35 |-> 0]

\* A catalog sector at (t, s) linking to (nt, ns), with its seven slots.
CatSector(t, s, nt, ns, slots) == [t |-> t, s |-> s, nt |-> nt, ns |-> ns, slots |-> slots]

\* The 256 bytes of a catalog sector: the link at bytes 0x01 and 0x02, the
\* seven slots of 35 bytes from byte 0x0B on.
CatSectorBytes(c) ==
    [i \in 1..SectorSize |->
        IF i - 1 = offsetNextTrack THEN c.nt
        ELSE IF i - 1 = offsetNextSector THEN c.ns
        ELSE IF i - 1 >= 11 THEN c.slots[((i - 12) \div 35) + 1][((i - 12) % 35) + 1]
        ELSE 0]

\* The 256 bytes of a VTOC: the catalog starts at (17, spt - 1), volume 254,
\* 35 tracks of spt sectors of 256 bytes; tracks 0-2 and 17 are in use,
\* track 3 is half free, the other tracks are free.
VtocBytes(spt) ==
    [i \in 1..SectorSize |->
        LET o == i - 1
            t == (o - 56) \div 4
        IN  CASE o = 1 -> 17
              [] o = 2 -> spt - 1
              [] o = 3 -> 3
              [] o = 6 -> 254
              [] o = 39 -> 122
              [] o = 48 -> 18
              [] o = 49 -> 1
              [] o = 52 -> 35
              [] o = 53 -> spt
              [] o = 55 -> 1
              [] o >= 56 /\ o < 56 + 4 * 35 /\ (o - 56) % 4 < 2 ->
                   (IF t \in {0, 1, 2, 17} THEN 0
                    ELSE IF t = 3 THEN (IF (o - 56) % 4 = 1 THEN 240 ELSE 0)
                    ELSE 255)
              [] OTHER -> 0]

\* A host file holding a DOS 3.3 image of spt sectors per track with the
\* catalog sectors cats.
ImageFile(spt, cats, readonly) ==
    [size     |-> 35 * spt * SectorSize,
     readonly |-> readonly,
     bytes    |-> [n \in {17 * spt} \cup {cats[k].t * spt + cats[k].s : k \in 1..Len(cats)} |->
                      IF n = 17 * spt THEN VtocBytes(spt)
                      ELSE CatSectorBytes(
                               cats[CHOOSE k \in 1..Len(cats) :
                                        cats[k].t * spt + cats[k].s = n])]]

eHELLO == MkEntry(18, 15, ftIntegerBasic, hiHELLO, 2, 0)
eHELLOinv == MkEntry(21, 15, 128 + ftApplesoftBasic, invHELLO, 3, 0)
ePROG == MkEntry(19, 15, 128 + ftApplesoftBasic, hiPROG, 5, 0)
ePROGunlocked == MkEntry(19, 15, ftApplesoftBasic, hiPROG, 5, 0)
eAPPLE == MkEntry(20, 15, 128 + ftIntegerBasic, hiAPPLE, 43, 0)
eRAWDOS == MkEntry(22, 15, 128 + ftBinary, hiRAWDOS, 39, 0)
eGIRL2 == MkEntry(255, 15, ftBinary, hiGIRL2, 7, 23)
eGIRL2locked == MkEntry(255, 15, 128 + ftText, hiGIRL2, 7, 23)
ePROGLocked == MkEntry(24, 15, ftText, hiPROGLocked, 1, 0)
eGarbage == MkEntry(25, 15, ftS, hiGarbage, 1, 0)

\* The catalogs: the usual one (a plain file, a locked one, a deleted one);
\* a chain of two sectors with unused slots between the entries, a deleted
\* and locked entry, and a last link of (0, 3); two entries with one
\* path-safe name; an empty catalog; entries whose names are those of a
\* lock marker and of a deleted file.
CatUsual(spt) ==
    <<CatSector(17, spt - 1, 0, 0,
                <<eHELLO, ePROG, NoEntry, eGIRL2, NoEntry, NoEntry, NoEntry>>)>>
CatChain(spt) ==
    <<CatSector(17, spt - 1, 17, spt - 2,
                <<NoEntry, eHELLO, NoEntry, NoEntry, NoEntry, NoEntry, eAPPLE>>),
      CatSector(17, spt - 2, 0, 3,
                <<eGIRL2locked, NoEntry, eRAWDOS, NoEntry, NoEntry, NoEntry, NoEntry>>)>>
CatSameName(spt) ==
    <<CatSector(17, spt - 1, 0, 0,
                <<eHELLO, eHELLOinv, NoEntry, NoEntry, NoEntry, NoEntry, NoEntry>>)>>
CatEmpty(spt) ==
    <<CatSector(17, spt - 1, 0, 0,
                <<NoEntry, NoEntry, NoEntry, NoEntry, NoEntry, NoEntry, NoEntry>>)>>
CatOddNames(spt) ==
    <<CatSector(17, spt - 1, 0, 0,
                <<ePROGunlocked, ePROGLocked, eGIRL2, eGarbage, NoEntry, NoEntry,
                  NoEntry>>)>>

\* A sector of an image: the 256 bytes at (t, s).
RawSector(t, s, bytes) == [t |-> t, s |-> s, bytes |-> bytes]

\* The 256 bytes of a T/S list: the link to the next list at bytes 0x01 and
\* 0x02, the (track, sector) pairs of the data sectors from byte 0x0C on.
TSListBytes(nt, ns, slots) ==
    [i \in 1..SectorSize |->
        IF i - 1 = 1 THEN nt
        ELSE IF i - 1 = 2 THEN ns
        ELSE IF i - 1 >= 12 /\ ((i - 13) \div 2) + 1 <= Len(slots)
        THEN slots[((i - 13) \div 2) + 1][((i - 13) % 2) + 1]
        ELSE 0]

\* The 256 bytes of a data sector: the four bytes head (the load address and
\* the length of a binary file, when it is its first sector), then bytes
\* that differ from sector to sector (seed) and from place to place.
DataBytes(head, seed) ==
    [i \in 1..SectorSize |-> IF i <= 4 THEN head[i] ELSE ((seed + i) % 255) + 1]

\* A host file of `size` bytes holding an image of spt sectors per track
\* with the catalog sectors cats and the other sectors given.
ImageFileWith(size, spt, cats, sectors, readonly) ==
    LET all == [k \in 1..Len(cats) |->
                   RawSector(cats[k].t, cats[k].s, CatSectorBytes(cats[k]))] \o sectors
        v   == vtocOffset(size).off \div SectorSize
    IN  [size     |-> size,
         readonly |-> readonly,
         bytes    |-> [n \in {v} \cup {all[k].t * spt + all[k].s : k \in 1..Len(all)} |->
                          IF n = v THEN VtocBytes(spt)
                          ELSE all[CHOOSE k \in 1..Len(all) :
                                       all[k].t * spt + all[k].s = n].bytes]]

\* A catalog of files with data: a binary file of 300 bytes in two sectors
\* (RAWDOS); a locked relocatable file whose header says 1000 bytes and
\* that has two sectors with a hole between them (PROG); a file with a
\* hole in its first T/S list and a second list, 300 sectors by its entry
\* (APPLE); a file of two
\* sectors in two T/S lists, one sector by its entry (HELLO); a file whose
\* T/S list links to itself, 256 sectors by its entry (GIRL2); a binary
\* file of no bytes (ZERO); a deleted file (GONE).
CatData(spt) ==
    <<CatSector(17, spt - 1, 0, 0,
                <<MkEntry(18, 1, ftBinary, hiRAWDOS, 3, 0),
                  MkEntry(18, 2, 128 + ftRelocatable, hiPROG, 2, 0),
                  MkEntry(18, 3, ftA, hiAPPLE, 300, 0),
                  MkEntry(18, 4, ftIntegerBasic, hiHELLO, 1, 0),
                  MkEntry(18, 5, ftText, hiGIRL2, 256, 0),
                  MkEntry(18, 8, ftBinary, <<218, 197, 210, 207>>, 2, 0),
                  MkEntry(255, 9, 128 + ftText, <<199, 207, 206, 197>>, 1, 18)>>)>>

\* The T/S lists and the data sectors of the files of CatData.
DataSectorsOfCatData ==
    <<RawSector(18, 1, TSListBytes(0, 0, <<(<<19, 0>>), <<19, 1>>>>)),
      RawSector(19, 0, DataBytes(<<3, 8, 44, 1>>, 10)),
      RawSector(19, 1, DataBytes(<<7, 7, 7, 7>>, 20)),
      RawSector(18, 2, TSListBytes(0, 0, <<(<<19, 2>>), <<0, 0>>, <<19, 4>>>>)),
      RawSector(19, 2, DataBytes(<<0, 32, 232, 3>>, 30)),
      RawSector(18, 3, TSListBytes(18, 7, <<(<<19, 3>>), <<0, 0>>, <<19, 4>>>>)),
      RawSector(18, 7, TSListBytes(0, 0, <<(<<19, 7>>)>>)),
      RawSector(19, 3, DataBytes(<<1, 2, 3, 4>>, 40)),
      RawSector(19, 4, DataBytes(<<5, 6, 7, 8>>, 50)),
      RawSector(19, 7, DataBytes(<<9, 8, 7, 6>>, 60)),
      RawSector(18, 4, TSListBytes(18, 6, <<(<<19, 5>>)>>)),
      RawSector(18, 6, TSListBytes(0, 0, <<(<<19, 6>>)>>)),
      RawSector(19, 5, DataBytes(<<1, 1, 1, 1>>, 70)),
      RawSector(19, 6, DataBytes(<<2, 2, 2, 2>>, 80)),
      RawSector(18, 5, TSListBytes(18, 5, <<(<<19, 8>>)>>)),
      RawSector(19, 8, DataBytes(<<3, 3, 3, 3>>, 90)),
      RawSector(18, 8, TSListBytes(0, 0, <<(<<19, 9>>)>>)),
      RawSector(19, 9, DataBytes(<<0, 3, 0, 0>>, 100))>>

\* A catalog whose only sector links back to the VTOC sector (17, 0).
CatCycle(spt) ==
    <<CatSector(17, spt - 1, 17, 0,
                <<eHELLO, NoEntry, NoEntry, NoEntry, NoEntry, NoEntry, NoEntry>>)>>

\* A catalog with names that are no path component: "A/B" (the byte 0xAF
\* is "/"), and a name field of padding only.
CatSlash(spt) ==
    <<CatSector(17, spt - 1, 0, 0,
                <<eHELLO,
                  MkEntry(19, 15, ftText, <<193, 175, 194>>, 2, 0),
                  MkEntry(20, 15, ftText, <<>>, 3, 0),
                  NoEntry, NoEntry, NoEntry, NoEntry>>)>>

\* A catalog with entries of a type that is none of the eight defined ones:
\* a live one (type bits 0x03) and a deleted one (type bits 0x7F).
CatOddType(spt) ==
    <<CatSector(17, spt - 1, 0, 0,
                <<eHELLO,
                  MkEntry(19, 15, 3, hiPROG, 1, 0),
                  MkEntry(255, 15, 127, hiGIRL2, 1, 23),
                  NoEntry, NoEntry, NoEntry, NoEntry>>)>>

\* A catalog with only the deleted entry of an undefined type.
CatOddTypeDeleted(spt) ==
    <<CatSector(17, spt - 1, 0, 0,
                <<eHELLO,
                  MkEntry(255, 15, 127, hiGIRL2, 1, 23),
                  NoEntry, NoEntry, NoEntry, NoEntry, NoEntry>>)>>

\* A host path and the file found there.
Host(path, file) == [path |-> path, file |-> file]

pDISK == <<68, 73, 83, 75, 46, 68, 83, 75>>              \* "DISK.DSK"
pD2 == <<68, 50, 46, 68, 83, 75>>                          \* "D2.DSK"
pD13 == <<105, 109, 103, 47, 68, 73, 83, 75, 46, 100, 49, 51>>   \* "img/DISK.d13"
paDISK == <<97, 47, 68, 73, 83, 75, 46, 68, 83, 75>>     \* "a/DISK.DSK"
pbDISK == <<98, 47, 68, 73, 83, 75, 46, 100, 115, 107>>    \* "b/DISK.dsk"
pReadme == <<82, 69, 65, 68, 77, 69, 46, 116, 120, 116, 46, 100, 115, 107>>  \* "README.txt.dsk"

\* The argument lists newFileSystem is started with.
AllConfigs ==
    {<<>>,
     <<Host(pDISK, ImageFile(16, CatUsual(16), FALSE))>>,
     <<Host(pDISK, ImageFile(16, CatChain(16), TRUE))>>,
     <<Host(pDISK, ImageFile(16, CatSameName(16), FALSE))>>,
     <<Host(pDISK, ImageFile(16, CatEmpty(16), FALSE))>>,
     <<Host(pDISK, ImageFile(16, CatOddNames(16), FALSE))>>,
     <<Host(pD13, ImageFile(13, CatChain(13), FALSE))>>,
     <<Host(pDISK, ImageFileWith(dskSize, 16, CatData(16), DataSectorsOfCatData, FALSE))>>,
     <<Host(pD2, ImageFileWith(dskSize, 16, CatCycle(16), <<>>, FALSE))>>,
     <<Host(pDISK, ImageFileWith(dskSize, 4, CatUsual(4), <<>>, FALSE))>>,
     <<Host(pD2, ImageFile(16, CatSlash(16), FALSE))>>,
     <<Host(pD2, ImageFile(16, CatOddType(16), FALSE))>>,
     <<Host(pD2, ImageFile(16, CatOddTypeDeleted(16), FALSE))>>,
     <<Host(pDISK, ImageFile(16, CatUsual(16), FALSE)),
       Host(pD2, ImageFile(16, CatChain(16), FALSE))>>,
     <<Host(paDISK, ImageFile(16, CatUsual(16), FALSE)),
       Host(pbDISK, ImageFile(16, CatChain(16), FALSE))>>,
     <<Host(pReadme, ImageFile(16, CatUsual(16), FALSE)),
       Host(pDISK, ImageFile(16, CatSameName(16), FALSE))>>,
     <<Host(pDISK, ImageFile(16, CatUsual(16), FALSE)),
       Host(pD2, ImageFile(13, CatChain(13), FALSE)),
       Host(pbDISK, ImageFile(16, CatEmpty(16), FALSE))>>}

Configs == {c \in AllConfigs : Len(c) <= MaxDisks}

RECURSIVE Join(_)
\* The components joined with "/".
Join(parts) ==
    IF Len(parts) = 0 THEN <<>>
    ELSE IF Len(parts) = 1 THEN parts[1]
    ELSE parts[1] \o <<chSlash>> \o Join(Tail(parts))

\* The paths given to the filesystem, as lists of components: each is tried
\* with a leading "/", and some without one or with two.
AllPathParts ==
    {<<>>, <<snReadme>>, <<snReadme, nHELLO>>, <<nMissing>>, <<nMissing, nHELLO>>,
     <<nDISK>>, <<nDISK, <<>>>>, <<nD2>>, <<nD2, nHELLO>>,
     <<nDISK, nHELLO>>, <<nDISK, nHELLO, <<>>>>, <<nDISK, nHELLO, nPROG>>,
     <<nDISK, snLock(nHELLO)>>,
     <<nDISK, nPROG>>, <<nDISK, snLock(nPROG)>>,
     <<nDISK, nGIRL2>>, <<nDISK, snDeleted(nGIRL2)>>,
     <<nDISK, snLock(nGIRL2)>>, <<nDISK, snLock(snDeleted(nGIRL2))>>,
     <<nDISK, nNEW>>, <<nDISK, snLock(nNEW)>>, <<nDISK, <<>>, nHELLO>>,
     <<nDISK, snDos>>, <<nDISK, snDos, snCatalog>>, <<nDISK, snDos, snVtoc>>,
     <<nDISK, snDos, nMissing>>, <<nDISK, snDos, snCatalog, nHELLO>>,
     <<nDISK, snLock(nHELLO), nPROG, nNEW>>}

Paths ==
    {<<chSlash>> \o Join(p) : p \in {q \in AllPathParts : Len(q) <= MaxDepth}}
    \cup {<<>>, nDISK, <<chSlash, chSlash>> \o nDISK, Join(<<nDISK, nHELLO>>)}

\* Whether a path is that of a lock marker: it ends in ",locked".
IsLockName(name) ==
    /\ Len(name) >= Len(snLock(<<>>))
    /\ SubSeq(name, Len(name) - Len(snLock(<<>>)) + 1, Len(name)) = snLock(<<>>)

\* The paths opened with the create flag: the lock markers, and names of
\* a file that exists and of files that do not.
CreatePaths ==
    {p \in Paths : IsLockName(p)}
    \cup {<<chSlash>> \o Join(p) : p \in {<<nDISK, nHELLO>>, <<nDISK, nNEW>>, <<nNEW>>}}

\* The paths RemoveAll is tried on: those opened with the create flag, and
\* names of files, directories and in-memory files.
RemovePaths ==
    CreatePaths
    \cup {<<chSlash>> \o Join(p) :
             p \in {<<>>, <<nDISK>>, <<nDISK, nPROG>>, <<nDISK, snDeleted(nGIRL2)>>,
                    <<nDISK, snDos, snCatalog>>, <<nMissing>>}}

\* The paths Mkdir and Rename are tried on.
FewPaths ==
    {<<chSlash>> \o Join(p) :
        p \in {<<>>, <<nDISK>>, <<nDISK, nHELLO>>, <<nDISK, nNEW>>,
               <<nDISK, snLock(nPROG)>>, <<nMissing, nNEW>>}}

---------------------------------------------------------------------------
(* The state machine.                                                      *)

NoRet == Ret("", <<>>, <<>>, FALSE, 0, "nil", RootDir, NoInfo, {}, <<>>)

\* No request to lock a file is remembered.
NoLockReq == [name |-> <<>>, err |-> "", disks |-> <<>>]

\* newFileSystem: every image is loaded, in the order given.
newFileSystem(config) == [i \in 1..Len(config) |-> LoadDiskette(config[i].path, config[i].file)]

\* No call is being answered: the filesystem takes the next call.
Idle == ret = NoRet

Init ==
    /\ \E config \in Configs : disks = newFileSystem(config)
    /\ handles = <<>>
    /\ ret = NoRet
    /\ lockReq = NoLockReq

OpenFile(name, create) ==
    /\ Idle
    /\ \E w \in {OpenFileResult(disks, name, create)} :
        /\ w.err # "nil" \/ Len(handles) < MaxHandles
        /\ handles' = IF w.err = "nil"
                      THEN Append(handles, [node |-> w.node, snap |-> Snap(disks, w.node)])
                      ELSE handles
        /\ ret' = Ret("OpenFile", name, <<>>, create, 0, w.err, w.node, NoInfo, {}, <<>>)
        /\ lockReq' = IF create /\ IsLockName(name)
                      THEN [name |-> name, err |-> w.err, disks |-> disks]
                      ELSE NoLockReq
        /\ UNCHANGED disks

Stat(name) ==
    /\ Idle
    /\ \E r \in {StatResult(disks, name)} :
        /\ ret' = Ret("Stat", name, <<>>, FALSE, 0, r.err, RootDir, r.info, {}, <<>>)
        /\ lockReq' = NoLockReq
        /\ UNCHANGED <<disks, handles>>

Mkdir(name) ==
    /\ Idle
    /\ \E r \in {MkdirResult(disks, name)} :
        /\ disks' = r.disks
        /\ ret' = Ret("Mkdir", name, <<>>, FALSE, 0, r.err, RootDir, NoInfo, {}, <<>>)
        /\ lockReq' = NoLockReq
        /\ UNCHANGED handles

RemoveAll(name) ==
    /\ Idle
    /\ \E r \in {RemoveAllResult(disks, name)} :
        /\ disks' = r.disks
        /\ ret' = Ret("RemoveAll", name, <<>>, FALSE, 0, r.err, RootDir, NoInfo, {}, <<>>)
        /\ UNCHANGED <<handles, lockReq>>

Rename(oldName, newName) ==
    /\ Idle
    /\ \E r \in {RenameResult(disks, oldName, newName)} :
        /\ disks' = r.disks
        /\ ret' = Ret("Rename", oldName, newName, FALSE, 0, r.err, RootDir, NoInfo, {}, <<>>)
        /\ lockReq' = NoLockReq
        /\ UNCHANGED handles

Readdir(h) ==
    /\ Idle
    /\ \E r \in {ReaddirResult(disks, handles[h])} :
        /\ ret' = Ret("Readdir", <<>>, <<>>, FALSE, h, r.err, handles[h].node, NoInfo,
                      r.list, <<>>)
        /\ lockReq' = NoLockReq
        /\ UNCHANGED <<disks, handles>>

Write(h) ==
    /\ Idle
    /\ ret' = Ret("Write", <<>>, <<>>, FALSE, h, WriteResult(handles[h]),
                  handles[h].node, NoInfo, {}, <<>>)
    /\ lockReq' = NoLockReq
    /\ UNCHANGED <<disks, handles>>

Close(h) ==
    /\ Idle
    /\ handles' = [i \in 1..(Len(handles) - 1) |->
                      IF i < h THEN handles[i] ELSE handles[i + 1]]
    /\ ret' = Ret("Close", <<>>, <<>>, FALSE, h, "nil", handles[h].node, NoInfo, {}, <<>>)
    /\ lockReq' = NoLockReq
    /\ UNCHANGED disks

\* Diskette.Catalog called on loaded image d: the entries it returns.
DskCatalog(d) ==
    /\ Idle
    /\ \E c \in {Catalog(disks[d])} :
        ret' = Ret("Catalog", <<>>, <<>>, FALSE, d,
                   IF c.status = "ok" THEN "nil" ELSE c.status,
                   DskDir(d), NoInfo, {}, c.entries)
    /\ lockReq' = NoLockReq
    /\ UNCHANGED <<disks, handles>>

\* Diskette.DataSectors called on an entry of the catalog of loaded image d:
\* the sectors it returns, each with its 256 bytes.
DskDataSectors(d) ==
    /\ Idle
    /\ \E c \in {Catalog(disks[d])} :
        /\ c.status = "ok"
        /\ \E k \in 1..Len(c.entries) :
            \E r \in {DataSectors(disks[d], c.entries[k])} :
                ret' = Ret("DataSectors", <<>>, <<>>, FALSE, d,
                           IF r.status = "ok" THEN "nil" ELSE r.status,
                           DskFile(d, c.entries[k]), NoInfo, {},
                           [i \in 1..Len(r.datas) |-> SectorBytes(disks[d], r.datas[i])])
    /\ lockReq' = NoLockReq
    /\ UNCHANGED <<disks, handles>>

\* Diskette.ReadAll called on an entry of the catalog of loaded image d: the
\* bytes it returns.
DskReadAll(d) ==
    /\ Idle
    /\ \E c \in {Catalog(disks[d])} :
        /\ c.status = "ok"
        /\ \E k \in 1..Len(c.entries) :
            \E r \in {ReadAll(disks[d], c.entries[k])} :
                ret' = Ret("ReadAll", <<>>, <<>>, FALSE, d,
                           IF r.status = "ok" THEN "nil" ELSE r.status,
                           DskFile(d, c.entries[k]), NoInfo, {}, r.bytes)
    /\ lockReq' = NoLockReq
    /\ UNCHANGED <<disks, handles>>

\* The caller has the answer of its call.
Return ==
    /\ ~Idle
    /\ ret' = NoRet
    /\ UNCHANGED <<disks, handles, lockReq>>

Next ==
    \/ \E name \in Paths : OpenFile(name, FALSE)
    \/ \E name \in CreatePaths : OpenFile(name, TRUE)
    \/ \E name \in Paths : Stat(name)
    \/ \E name \in FewPaths : Mkdir(name)
    \/ \E name \in RemovePaths : RemoveAll(name)
    \/ \E oldName \in FewPaths, newName \in {<<chSlash>> \o nNEW} : Rename(oldName, newName)
    \/ \E h \in 1..Len(handles) : Readdir(h)
    \/ \E h \in 1..Len(handles) : Write(h)
    \/ \E h \in 1..Len(handles) : Close(h)
    \/ \E d \in 1..Len(disks) : DskCatalog(d)
    \/ \E d \in 1..Len(disks) : DskDataSectors(d)
    \/ \E d \in 1..Len(disks) : DskReadAll(d)
    \/ Return

Spec == Init /\ [][Next]_vars

---------------------------------------------------------------------------
(* The filename codec on its own: Filename.PathSafe and Filename.String    *)
(* applied to names of raw bytes.                                          *)

\* The Hi-ASCII byte of an ASCII character: a normal character has the high
\* bit set (mask $FF), an inverted one keeps its low six bits (mask $3F).
EncodeByte(ascii, inverted) == IF inverted THEN ascii % 64 ELSE ascii + 128

\* The raw name of the ASCII characters ascii shown as flags tells.
Encode(ascii, flags) == [i \in 1..Len(ascii) |-> EncodeByte(ascii[i], flags[i])]

\* The raw names PathSafe is applied to: every byte value as a name of one
\* character (0xA0 only before another character: a name does not end in
\* padding), and names of several characters.
RawNames ==
    {<<b>> : b \in (0..255) \ {hiAsciiSpace}}
    \cup {<<hiAsciiSpace, b>> : b \in {0, 63, 127, 128, 193, 255}}
    \cup {hiHELLO, invHELLO, hiGarbage, <<>>}

\* The characters a name is encoded from and how each is shown: every
\* character from " " to "_", normal and inverted, and HELLO in normal, in
\* inverted and in both kinds of characters.
EncodedNames ==
    {<<(<<c>>), <<inv>>>> : c \in 32..95, inv \in BOOLEAN}
    \cup {<<nHELLO, [i \in 1..5 |-> inv]>> : inv \in BOOLEAN}
    \cup {<<nHELLO, <<FALSE, TRUE, TRUE, FALSE, TRUE>>>>}

\* Filename.PathSafe called on a raw name.
FilenamePathSafe(name) ==
    /\ Idle
    /\ ret' = Ret("PathSafe", name, <<>>, FALSE, 0, "nil", RootDir, NoInfo, {},
                  PathSafe(name))
    /\ UNCHANGED <<disks, handles, lockReq>>

\* Filename.String called on the raw name encoded from the characters
\* ascii and the flags; the call remembers what the name was encoded from.
FilenameString(ascii, flags) ==
    /\ Idle
    /\ ret' = Ret("String", Encode(ascii, flags), ascii, FALSE, 0, "nil", RootDir,
                  NoInfo, {<<i, flags[i]>> : i \in 1..Len(flags)},
                  String(Encode(ascii, flags)))
    /\ UNCHANGED <<disks, handles, lockReq>>

\* The raw names ANSIEscaped is applied to: those PathSafe is applied to,
\* the encoded ones, names of several runs of inverted characters, and the
\* names whose characters "\033[47;30m" and "\033[0m" are normal ones.
EscapedNames ==
    RawNames
    \cup {Encode(e[1], e[2]) : e \in EncodedNames}
    \cup {Encode(nHELLO, flags) : flags \in [1..5 -> BOOLEAN]}
    \cup {[i \in 1..Len(escCodeInverse) |-> escCodeInverse[i] + 128],
          [i \in 1..Len(escCodeReset) |-> escCodeReset[i] + 128]}

\* Filename.ANSIEscaped called on a raw name.
FilenameANSIEscaped(name) ==
    /\ Idle
    /\ ret' = Ret("ANSIEscaped", name, <<>>, FALSE, 0, "nil", RootDir, NoInfo, {},
                  ANSIEscaped(name))
    /\ UNCHANGED <<disks, handles, lockReq>>

CodecInit ==
    /\ disks = <<>>
    /\ handles = <<>>
    /\ ret = NoRet
    /\ lockReq = NoLockReq

CodecNext ==
    \/ \E name \in RawNames : FilenamePathSafe(name)
    \/ \E e \in EncodedNames : FilenameString(e[1], e[2])
    \/ \E name \in EscapedNames : FilenameANSIEscaped(name)
    \/ Return

CodecSpec == CodecInit /\ [][CodecNext]_vars

---------------------------------------------------------------------------
(* package dsk on its own: images are loaded one after the other, and the  *)
(* library is called on the loaded ones.                                   *)

\* A host file of `size` bytes, all of them zero.
ZeroFile(size) == [size |-> size, readonly |-> FALSE, bytes |-> <<>>]

\* A catalog of entries with odd names: a name field of padding only, first
\* with a type byte of 0x00, then with bytes 0x00-0x02 of 0xA0 as well; and
\* a file whose first T/S list has a slot of track 0 and sector 5 between
\* two used slots; a locked file of type A named by 29 spaces and an "X".
CatBlank(spt) ==
    <<CatSector(17, spt - 1, 0, 0,
                <<MkEntry(18, 1, ftText, <<>>, 1, 0),
                  MkEntry(hiAsciiSpace, hiAsciiSpace, hiAsciiSpace, <<>>, 1, 0),
                  MkEntry(18, 3, ftText, hiAPPLE, 3, 0),
                  MkEntry(18, 1, 128 + ftA,
                          [i \in 1..30 |-> IF i = 30 THEN 216 ELSE hiAsciiSpace], 1, 0),
                  NoEntry, NoEntry, NoEntry>>)>>

\* The T/S lists and the data sectors of the files of CatBlank.
DataSectorsOfCatBlank ==
    <<RawSector(18, 1, TSListBytes(0, 0, <<(<<19, 1>>)>>)),
      RawSector(19, 1, DataBytes(<<7, 7, 7, 7>>, 20)),
      RawSector(18, 3, TSListBytes(18, 7, <<(<<19, 3>>), <<0, 5>>, <<19, 4>>>>)),
      RawSector(18, 7, TSListBytes(0, 0, <<(<<19, 7>>), <<19, 8>>>>)),
      RawSector(19, 3, DataBytes(<<1, 2, 3, 4>>, 40)),
      RawSector(19, 4, DataBytes(<<5, 6, 7, 8>>, 50)),
      RawSector(19, 7, DataBytes(<<9, 8, 7, 6>>, 60)),
      RawSector(19, 8, DataBytes(<<6, 7, 8, 9>>, 70))>>

\* The host files LoadDiskette is called on: images of both sizes, and
\* files of other sizes (none, a sector less than a 13-sector image, a byte
\* more than a 16-sector image).
LibHosts ==
    {Host(pDISK, ImageFileWith(dskSize, 16, CatData(16), DataSectorsOfCatData, FALSE)),
     Host(pD2, ImageFileWith(dskSize, 16, CatBlank(16), DataSectorsOfCatBlank, FALSE)),
     Host(pD13, ImageFile(13, CatOddType(13), TRUE)),
     Host(paDISK, ZeroFile(0)),
     Host(pbDISK, ZeroFile(d13Size - SectorSize)),
     Host(pReadme, ZeroFile(dskSize + 1))}

\* The tracks and the sectors rawSector is called with.
LibTracks == {0, 17, 34, 35, 36}
LibSectors == {0, 12, 13, 15, 16, 17}

\* LoadDiskette called on a host file, as newFileSystem calls it: a
\* Diskette returned is appended to the loaded ones.
DskLoadDiskette(host) ==
    /\ Idle
    /\ Len(disks) < MaxDisks
    /\ \E dsk \in {LoadDiskette(host.path, host.file)} :
        /\ disks' = IF dsk.panic THEN disks ELSE Append(disks, dsk)
        /\ ret' = Ret("LoadDiskette", host.path, <<>>, FALSE, host.file.size,
                      IF dsk.panic THEN "panic" ELSE "nil", RootDir, NoInfo, {}, <<>>)
    /\ UNCHANGED <<handles, lockReq>>

\* Diskette.rawSector called on loaded image d: the 256 bytes it returns.
DskRawSector(d, track, sector) ==
    /\ Idle
    /\ \E r \in {rawSector(disks[d], track, sector)} :
        ret' = Ret("rawSector", <<>>, <<>>, FALSE, d,
                   IF r.panic THEN "panic" ELSE "nil", DskDir(d), NoInfo,
                   {<<track, sector>>},
                   IF r.panic THEN <<>> ELSE SectorBytes(disks[d], r.off))
    /\ UNCHANGED <<disks, handles, lockReq>>

\* FileEntry.Name called on an entry of the catalog of loaded image d.
EntryName(d) ==
    /\ Idle
    /\ \E c \in {Catalog(disks[d])} :
        /\ c.status = "ok"
        /\ \E k \in 1..Len(c.entries) :
            \E n \in {Name(disks[d], c.entries[k])} :
                ret' = Ret("Name", <<>>, <<>>, FALSE, d,
                           IF n.panic THEN "panic" ELSE "nil",
                           DskFile(d, c.entries[k]), NoInfo, {}, n.name)
    /\ UNCHANGED <<disks, handles, lockReq>>

\* The buffer b with byte i set to v.
SetByte(b, i, v) ==
    [n \in DOMAIN b \cup {i \div SectorSize} |->
        [k \in 1..SectorSize |->
            IF n * SectorSize + k - 1 = i THEN v ELSE ByteAt(b, n * SectorSize + k - 1)]]

\* The image once DOS has deleted entry f: the track of the first T/S list
\* is copied to the last byte of the name field, and byte 0x00 is set to
\* 0xFF.
DeleteEntry(dsk, f) ==
    [dsk EXCEPT !.bytes = SetByte(SetByte(dsk.bytes, f + 32, EntryByte(dsk, f, 0)),
                                  f, 255)]

\* Diskette.ReadAll called on a live entry of the catalog of loaded image d
\* once the entry is deleted: the bytes it returns.
DskReadAllDeleted(d) ==
    /\ Idle
    /\ \E c \in {Catalog(disks[d])} :
        /\ c.status = "ok"
        /\ \E k \in 1..Len(c.entries) :
            /\ ~IsDeleted(disks[d], c.entries[k])
            /\ \E r \in {ReadAll(DeleteEntry(disks[d], c.entries[k]), c.entries[k])} :
                ret' = Ret("ReadAllDeleted", <<>>, <<>>, FALSE, d,
                           IF r.status = "ok" THEN "nil" ELSE r.status,
                           DskFile(d, c.entries[k]), NoInfo, {}, r.bytes)
    /\ UNCHANGED <<disks, handles, lockReq>>

LibInit ==
    /\ disks = <<>>
    /\ handles = <<>>
    /\ ret = NoRet
    /\ lockReq = NoLockReq

LibNext ==
    \/ \E host \in LibHosts : DskLoadDiskette(host)
    \/ \E d \in 1..Len(disks), track \in LibTracks, sector \in LibSectors :
           DskRawSector(d, track, sector)
    \/ \E d \in 1..Len(disks) : EntryName(d)
    \/ \E d \in 1..Len(disks) : DskCatalog(d)
    \/ \E d \in 1..Len(disks) : DskDataSectors(d)
    \/ \E d \in 1..Len(disks) : DskReadAll(d)
    \/ \E d \in 1..Len(disks) : DskReadAllDeleted(d)
    \/ Return

LibSpec == LibInit /\ [][LibNext]_vars

---------------------------------------------------------------------------
(* The filesystem under concurrent requests.  The WebDAV server runs every *)
(* request in a handler of its own; the handlers share the dos33FS.  Here  *)
(* handles[i] is the file handler i has open and ret[i] the call handler i *)
(* is in: where it stands (pc), what is left of the path it walks (rest),  *)
(* and the call with its result (r).  A walk takes one step for each       *)
(* component, so the calls of the handlers interleave.                     *)

\* What a handler's open file holds: its node, what Snap gives, whether the
\* content is made (dskFile.content is not nil), the content and the read
\* cursor of its bytes.Reader.
Handle(node, snap, loaded, content, pos) ==
    [open |-> TRUE, node |-> node, snap |-> snap, loaded |-> loaded,
     content |-> content, pos |-> pos]

\* The handler has no file open.
NoHandle ==
    [open |-> FALSE, node |-> RootDir, snap |-> <<>>, loaded |-> FALSE,
     content |-> <<>>, pos |-> 0]

\* A variant of NodeOpen that gives a disk file that another handler has
\* open as that handler has it, as if the disk directory kept its children.
NodeOpenKept(hs, ds, node) ==
    IF node.kind = "dskFile" /\ \E j \in DOMAIN hs : hs[j].open /\ hs[j].node = node
    THEN hs[CHOOSE j \in DOMAIN hs : hs[j].open /\ hs[j].node = node]
    ELSE Handle(node, Snap(ds, node), node.kind = "memFile",
                IF node.kind = "memFile" THEN Content(ds, node) ELSE <<>>, 0)

\* Open of the node a walk returned: the node itself, as Children made it
\* for this walk.  A dskFile is made without content, a memFile with the
\* reader of its text.
NodeOpen(hs, ds, node) ==
    Handle(node, Snap(ds, node), node.kind = "memFile",
           IF node.kind = "memFile" THEN Content(ds, node) ELSE <<>>, 0)

\* dskFile.load: the content is read with ReadAll when there is none yet.
load(ds, hd, all) ==
    IF hd.loaded THEN [err |-> "nil", handle |-> hd]
    ELSE IF all.status # "ok" THEN [err |-> all.status, handle |-> hd]
    ELSE [err |-> "nil", handle |-> [hd EXCEPT !.loaded = TRUE, !.content = all.bytes]]

\* bytes.Reader.Read into a buffer of n bytes
ReaderRead(hd, n) ==
    IF hd.pos >= Len(hd.content) THEN [err |-> "EOF", out |-> <<>>, handle |-> hd]
    ELSE [err    |-> "nil",
          out    |-> SubSeq(hd.content, hd.pos + 1, Min(hd.pos + n, Len(hd.content))),
          handle |-> [hd EXCEPT !.pos = Min(hd.pos + n, Len(hd.content))]]

\* bytes.Reader.Seek: the new position, counted from the start (whence 0),
\* the cursor (1) or the end (2).
ReaderSeek(hd, offset, whence) ==
    LET abs == CASE whence = 0 -> offset
                 [] whence = 1 -> hd.pos + offset
                 [] whence = 2 -> Len(hd.content) + offset
                 [] OTHER -> 0
    IN  IF whence \notin {0, 1, 2} THEN [err |-> "invalid whence", pos |-> 0, handle |-> hd]
        ELSE IF abs < 0 THEN [err |-> "negative position", pos |-> 0, handle |-> hd]
        ELSE [err |-> "nil", pos |-> abs, handle |-> [hd EXCEPT !.pos = abs]]

\* Read of an open file: anyDir.Read, dskFile.Read, memFile.Read
FileRead(ds, hd, n) ==
    IF IsDir(hd.node) THEN [err |-> "ErrUnsupported", out |-> <<>>, handle |-> hd]
    ELSE IF hd.node.kind = "memFile" THEN ReaderRead(hd, n)
    ELSE LET l == load(ds, hd, ReadAll(ds[hd.node.disk], hd.node.file))
         IN  IF l.err # "nil" THEN [err |-> l.err, out |-> <<>>, handle |-> hd]
             ELSE ReaderRead(l.handle, n)

\* Seek of an open file: anyDir.Seek, dskFile.Seek, memFile.Seek
FileSeek(ds, hd, offset, whence) ==
    IF IsDir(hd.node) THEN [err |-> "ErrUnsupported", pos |-> -1, handle |-> hd]
    ELSE IF hd.node.kind = "memFile" THEN ReaderSeek(hd, offset, whence)
    ELSE LET l == load(ds, hd, ReadAll(ds[hd.node.disk], hd.node.file))
         IN  IF l.err # "nil" THEN [err |-> l.err, pos |-> 0, handle |-> hd]
             ELSE ReaderSeek(l.handle, offset, whence)

\* A variant of walkRound that descends into a child without asking whether
\* it is a directory.
walkRoundAny(split, c) ==
    IF c.status # "ok" THEN [done |-> TRUE, err |-> c.status, node |-> RootDir, rest |-> <<>>]
    ELSE IF split[1] \notin DOMAIN c.kids
    THEN [done |-> TRUE, err |-> "ErrNotExist", node |-> RootDir, rest |-> <<>>]
    ELSE IF Len(split) = 1
    THEN [done |-> FALSE, err |-> "nil", node |-> c.kids[split[1]], rest |-> <<>>]
    ELSE [done |-> FALSE, err |-> "nil", node |-> c.kids[split[1]], rest |-> split[2]]

\* One call of walk on a path that is not empty, split at its first "/"
\* (split), with the parent's children read (c): it returns an error, or
\* the child, or goes on below the child with the rest of the path.
walkRound(split, c) ==
    IF c.status # "ok" THEN [done |-> TRUE, err |-> c.status, node |-> RootDir, rest |-> <<>>]
    ELSE IF split[1] \notin DOMAIN c.kids
    THEN [done |-> TRUE, err |-> "ErrNotExist", node |-> RootDir, rest |-> <<>>]
    ELSE IF Len(split) = 1
    THEN [done |-> FALSE, err |-> "nil", node |-> c.kids[split[1]], rest |-> <<>>]
    ELSE IF IsDir(c.kids[split[1]])
    THEN [done |-> FALSE, err |-> "nil", node |-> c.kids[split[1]], rest |-> split[2]]
    ELSE [done |-> TRUE, err |-> "ErrInvalid", node |-> RootDir, rest |-> <<>>]

\* Where a handler stands in its call.
Call(pc, rest, r) == [pc |-> pc, rest |-> rest, r |-> r]
NoCall == Call("idle", <<>>, NoRet)

\* The image the handlers serve, the paths they open and stat, and what
\* they read and seek: a buffer of 300 bytes; to the start, to the cursor,
\* to 212 bytes before the end, to a negative place, with no valid whence.
ServeConfig ==
    <<Host(pDISK, ImageFileWith(dskSize, 16, CatData(16), DataSectorsOfCatData, FALSE))>>
ServePaths ==
    {<<chSlash>> \o Join(p) : p \in {<<nDISK>>, <<nDISK, nHELLO>>, <<nDISK, nHELLO, nPROG>>}}
ReadSizes == {300}
Seeks == {<<0, 0>>, <<0, 1>>, <<-212, 2>>, <<-1, 0>>, <<0, 3>>}

\* Handler i calls OpenFile or Stat: the leading "/"s are trimmed and the
\* walk starts at the root.
SrvBegin(i, op, name) ==
    /\ ret[i].pc = "idle"
    /\ op = "OpenFile" => ~handles[i].open
    /\ ret' = [ret EXCEPT ![i] =
                  Call("walk", TrimLeft(name, chSlash),
                       Ret(op, name, <<>>, FALSE, i, "nil", RootDir, NoInfo, {}, <<>>))]
    /\ UNCHANGED <<disks, handles, lockReq>>

\* Handler i takes the next call of walk.
SrvWalk(i) ==
    /\ ret[i].pc = "walk"
    /\ ret[i].rest # <<>>
    /\ \E w \in {walkRound(SplitN2(ret[i].rest), Children(disks, ret[i].r.node))} :
        ret' = [ret EXCEPT ![i] =
                   Call(IF w.done THEN "done" ELSE "walk", w.rest,
                        [ret[i].r EXCEPT !.err = w.err, !.node = w.node])]
    /\ UNCHANGED <<disks, handles, lockReq>>

\* The walk of handler i has returned a node: the node is opened, or its
\* Stat is returned.
SrvFinish(i) ==
    /\ ret[i].pc = "walk"
    /\ ret[i].rest = <<>>
    /\ IF ret[i].r.op = "OpenFile"
       THEN /\ handles' = [handles EXCEPT ![i] = NodeOpen(handles, disks, ret[i].r.node)]
            /\ ret' = [ret EXCEPT ![i] = Call("done", <<>>, ret[i].r)]
       ELSE /\ \E st \in {NodeStat(disks, ret[i].r.node)} :
                 ret' = [ret EXCEPT ![i] =
                            Call("done", <<>>,
                                 [ret[i].r EXCEPT !.err = st.err, !.info = st.info])]
            /\ UNCHANGED handles
    /\ UNCHANGED <<disks, lockReq>>

\* Handler i lists the file it has open.
SrvReaddir(i) ==
    /\ ret[i].pc = "idle"
    /\ handles[i].open
    /\ \E r \in {ReaddirResult(disks, handles[i])} :
        ret' = [ret EXCEPT ![i] =
                   Call("done", <<>>,
                        Ret("Readdir", <<>>, <<>>, FALSE, i, r.err, handles[i].node,
                            NoInfo, r.list, <<>>))]
    /\ UNCHANGED <<disks, handles, lockReq>>

\* Handler i reads the file it has open into a buffer of n bytes.
SrvRead(i, n) ==
    /\ ret[i].pc = "idle"
    /\ handles[i].open
    /\ \E r \in {FileRead(disks, handles[i], n)} :
        /\ handles' = [handles EXCEPT ![i] = r.handle]
        /\ ret' = [ret EXCEPT ![i] =
                      Call("done", <<>>,
                           Ret("Read", <<>>, <<n>>, FALSE, i, r.err, handles[i].node,
                               NoInfo, {}, r.out))]
    /\ UNCHANGED <<disks, lockReq>>

\* Handler i moves the cursor of the file it has open; the call returns the
\* new position.
SrvSeek(i, offset, whence) ==
    /\ ret[i].pc = "idle"
    /\ handles[i].open
    /\ \E r \in {FileSeek(disks, handles[i], offset, whence)} :
        /\ handles' = [handles EXCEPT ![i] = r.handle]
        /\ ret' = [ret EXCEPT ![i] =
                      Call("done", <<>>,
                           Ret("Seek", <<>>, <<offset, whence>>, FALSE, r.pos, r.err,
                               handles[i].node, NoInfo, {}, <<>>))]
    /\ UNCHANGED <<disks, lockReq>>

\* Handler i closes the file it has open.
SrvClose(i) ==
    /\ ret[i].pc = "idle"
    /\ handles[i].open
    /\ handles' = [handles EXCEPT ![i] = NoHandle]
    /\ ret' = [ret EXCEPT ![i] =
                  Call("done", <<>>,
                       Ret("Close", <<>>, <<>>, FALSE, i, "nil", handles[i].node,
                           NoInfo, {}, <<>>))]
    /\ UNCHANGED <<disks, lockReq>>

\* The caller of handler i has the answer of its call.
SrvReturn(i) ==
    /\ ret[i].pc = "done"
    /\ ret' = [ret EXCEPT ![i] = NoCall]
    /\ UNCHANGED <<disks, handles, lockReq>>

ServeInit ==
    /\ disks = newFileSystem(ServeConfig)
    /\ handles = [i \in 1..NumHandlers |-> NoHandle]
    /\ ret = [i \in 1..NumHandlers |-> NoCall]
    /\ lockReq = NoLockReq

ServeNext ==
    \E i \in 1..NumHandlers :
        \/ \E op \in {"OpenFile", "Stat"}, name \in ServePaths : SrvBegin(i, op, name)
        \/ SrvWalk(i)
        \/ SrvFinish(i)
        \/ SrvReaddir(i)
        \/ \E n \in ReadSizes : SrvRead(i, n)
        \/ \E s \in Seeks : SrvSeek(i, s[1], s[2])
        \/ SrvClose(i)
        \/ SrvReturn(i)

ServeSpec == ServeInit /\ [][ServeNext]_vars

---------------------------------------------------------------------------
(* The properties checked.                                                 *)

\* The names of a listing.
Names(list) == {i.name : i \in list}

\* The catalog entries of image dsk, as a set.
Entries(dsk) == {Catalog(dsk).entries[k] : k \in 1..Len(Catalog(dsk).entries)}

\* The path-safe name of entry f.
SafeName(dsk, f) == PathSafe(Name(dsk, f).name)

\* The name entry f is listed under: its path-safe name, "_<name>.garbage"
\* when the entry is deleted.
ListedName(dsk, f) ==
    IF EntryByte(dsk, f, 0) = 255 THEN snDeleted(SafeName(dsk, f)) ELSE SafeName(dsk, f)

\* A listing of the directory of a loaded image has been returned.
DiskListed == ret.op = "Readdir" /\ ret.node.kind = "dskDir" /\ ret.err = "nil"

\* C1: a listing of a disk directory holds exactly one entry named
\* PathSafe(name) for each catalog entry that is not deleted, one entry
\* named "_<PathSafe(name)>.garbage" for each deleted one, the lock markers
\* and the directory "_dos": every catalog entry has its own entry in the
\* listing and no other name is listed.
C1_DiskListing ==
    DiskListed =>
        LET dsk     == disks[ret.node.disk]
            files   == {ListedName(dsk, f) : f \in Entries(dsk)}
            locked  == {f \in Entries(dsk) : EntryByte(dsk, f, 2) >= 128}
            markers == {snLock(ListedName(dsk, f)) : f \in locked}
                           \cup {snLock(SafeName(dsk, f)) : f \in locked}
        IN  /\ files \subseteq Names(ret.list)
            /\ FileInfo(snDos, 0, TRUE) \in ret.list
            /\ Names(ret.list) \subseteq files \cup markers \cup {snDos}
            /\ Cardinality({i \in ret.list : i.name \in files /\ ~i.isDir})
                   = Cardinality(Entries(dsk))

\* C2 as the code has it: in a listing of a disk directory, every catalog
\* entry with bit 0x80 of byte 0x02 set has the name "<N>,locked" listed,
\* N being the name the entry itself is listed under (PathSafe(name), and
\* "_<PathSafe(name)>.garbage" for a deleted entry); and every name listed
\* besides "_dos" and the entries' own names is "<N>,locked" for such an
\* entry.
C2_LockMarkers ==
    DiskListed =>
        LET dsk    == disks[ret.node.disk]
            files  == {ListedName(dsk, f) : f \in Entries(dsk)}
            locked == {f \in Entries(dsk) : EntryByte(dsk, f, 2) >= 128}
        IN  /\ \A f \in locked : snLock(ListedName(dsk, f)) \in Names(ret.list)
            /\ \A n \in Names(ret.list) \ (files \cup {snDos}) :
                   \E f \in locked : n = snLock(ListedName(dsk, f))

\* C2's case: the listing of an image with a locked entry, a deleted and
\* locked one and an unlocked one has been returned.
C2_Witness ==
    /\ DiskListed
    /\ \E f, g, h \in Entries(disks[ret.node.disk]) :
           /\ EntryByte(disks[ret.node.disk], f, 2) >= 128
           /\ EntryByte(disks[ret.node.disk], f, 0) = 255
           /\ EntryByte(disks[ret.node.disk], g, 2) >= 128
           /\ EntryByte(disks[ret.node.disk], g, 0) # 255
           /\ EntryByte(disks[ret.node.disk], h, 2) < 128
           /\ snLock(ListedName(disks[ret.node.disk], f)) \in Names(ret.list)
           /\ snLock(ListedName(disks[ret.node.disk], h)) \notin Names(ret.list)

\* C2 as stated: in a listing of a disk directory a lock marker named
\* "<PathSafe(name)>,locked" is present if and only if a catalog entry with
\* that path-safe name has bit 0x80 of byte 0x02 set, deleted entries
\* included.  (A marker is a listed name that is not an entry's own.)
C2_LockMarkersPathSafe ==
    DiskListed =>
        LET dsk   == disks[ret.node.disk]
            files == {ListedName(dsk, f) : f \in Entries(dsk)}
        IN  \A f \in Entries(dsk) :
                (snLock(SafeName(dsk, f)) \in Names(ret.list) \ files)
                    <=> \E g \in Entries(dsk) :
                            /\ SafeName(dsk, g) = SafeName(dsk, f)
                            /\ EntryByte(dsk, g, 2) >= 128

\* C3: a listing of the root holds exactly one directory per loaded image,
\* named by the base name of the image's path without its extension, and
\* the file README.txt: n + 1 entries for n loaded images.
C3_RootListing ==
    (ret.op = "Readdir" /\ ret.node.kind = "rootDir" /\ ret.err = "nil") =>
        /\ Cardinality(ret.list) = Len(disks) + 1
        /\ Cardinality({i \in ret.list : i.isDir}) = Len(disks)
        /\ \A d \in 1..Len(disks) : FileInfo(disks[d].name, 0, TRUE) \in ret.list
        /\ FileInfo(snReadme, Len(readme), FALSE) \in ret.list
        /\ Names(ret.list) = {snReadme} \cup {disks[d].name : d \in 1..Len(disks)}

RECURSIVE Components(_)
\* A path split at every "/".
Components(s) ==
    IF IndexByte(s, 47) = 0 THEN <<s>>
    ELSE <<SubSeq(s, 1, IndexByte(s, 47) - 1)>>
         \o Components(SubSeq(s, IndexByte(s, 47) + 1, Len(s)))

RECURSIVE StripSlashes(_)
\* A path without its leading "/"s.
StripSlashes(s) == IF s # <<>> /\ s[1] = 47 THEN StripSlashes(Tail(s)) ELSE s

RECURSIVE Resolve(_, _, _)
\* What the components comps name below node: nothing left, or one empty
\* component left (the path was empty or ended in "/" after a directory),
\* names the node itself; a component that is no child of the node gives
\* NotFound (os.ErrNotExist); components left after a node that is no
\* directory give NotADirectory (os.ErrInvalid, "child is not a directory").
Resolve(ds, node, comps) ==
    IF comps = <<>> \/ comps = <<(<<>>)>> THEN [err |-> "nil", node |-> node]
    ELSE IF comps[1] \notin DOMAIN Children(ds, node).kids
    THEN [err |-> "ErrNotExist", node |-> RootDir]
    ELSE IF Len(comps) = 1
    THEN [err |-> "nil", node |-> Children(ds, node).kids[comps[1]]]
    ELSE IF ~IsDir(Children(ds, node).kids[comps[1]])
    THEN [err |-> "ErrInvalid", node |-> RootDir]
    ELSE Resolve(ds, Children(ds, node).kids[comps[1]], Tail(comps))

\* C9: an open or a stat that returns resolves its path as follows: the
\* leading "/"s are trimmed and the empty path is the root; a component that
\* is no child of the directory reached so far gives NotFound; components
\* after a node that is no directory give NotADirectory; otherwise the node
\* named by the whole path is returned (open) or described (stat).  A first
\* component that is neither README.txt nor the name of a loaded image
\* gives "file does not exist".
C9_PathResolution ==
    (ret.op \in {"OpenFile", "Stat"} /\ ret.err \notin {"panic", "loop"}) =>
        LET comps == Components(StripSlashes(ret.name))
            want  == Resolve(disks, RootDir, comps)
        IN  /\ ret.err = want.err
            /\ ret.op = "OpenFile" /\ ret.err = "nil" => ret.node = want.node
            /\ ret.op = "Stat" /\ ret.err = "nil" =>
                   ret.info = NodeStat(disks, want.node).info
            /\ StripSlashes(ret.name) = <<>> =>
                   ret.err = "nil" /\ (ret.op = "OpenFile" => ret.node = RootDir)
            /\ (/\ StripSlashes(ret.name) # <<>>
                /\ comps[1] # snReadme
                /\ \A d \in 1..Len(disks) : comps[1] # disks[d].name)
                   => ret.err = "ErrNotExist"

\* C9's case: an open has returned NotADirectory for a path of three
\* components whose second names a file.
C9_Witness ==
    /\ ret.op = "OpenFile"
    /\ ret.err = "ErrInvalid"
    /\ Len(Components(StripSlashes(ret.name))) = 3

\* Image d of ds is the one the root shows under its name.
Shown(ds, d) == Children(ds, RootDir).kids[ds[d].name] = DskDir(d)

\* The paths of entry f of image d and of its lock marker.
FilePath(ds, d, f) == <<47>> \o ds[d].name \o <<47>> \o SafeName(ds[d], f)
LockPath(ds, d, f) == snLock(FilePath(ds, d, f))

\* Entry f of image dsk is a file: neither deleted nor never used.
Live(dsk, f) == EntryByte(dsk, f, 0) \notin {0, 255}

\* C4: an open with the create flag of "/<disk>/<F>,locked", F the
\* path-safe name of an unlocked file of a writable image, succeeds and sets
\* bit 0x80 of byte 0x02 of F's entry, so that the disk directory then
\* holds "<F>,locked" and F's line of CATALOG.txt starts with "*"; when no
\* entry of the image has path-safe name F the open fails.
C4_LockByCreate ==
    [][/\ \A d \in 1..Len(disks) : \A f \in Entries(disks[d]) :
              (/\ ret'.op = "OpenFile" /\ ret'.create
               /\ ret'.name = LockPath(disks, d, f)
               /\ Shown(disks, d) /\ ~disks[d].readonly
               /\ Live(disks[d], f) /\ EntryByte(disks[d], f, 2) < 128)
                  => /\ ret'.err = "nil"
                     /\ EntryByte(disks'[d], f, 2) = EntryByte(disks[d], f, 2) + 128
                     /\ snLock(SafeName(disks[d], f))
                            \in DOMAIN Children(disks', DskDir(d)).kids
                     /\ CatalogLine(disks'[d], f).s[1] = 42
       /\ \A d \in 1..Len(disks) :
              (/\ ret'.op = "OpenFile" /\ ret'.create
               /\ IsLockName(ret'.name)
               /\ Len(Components(StripSlashes(ret'.name))) = 2
               /\ Components(StripSlashes(ret'.name))[1] = disks[d].name
               /\ \A f \in Entries(disks[d]) : ret'.name # LockPath(disks, d, f))
                  => ret'.err # "nil"]_vars

\* C5: RemoveAll of "/<disk>/<F>,locked", F the path-safe name of a locked
\* file, succeeds and clears bit 0x80 of byte 0x02 of F's entry, so that the
\* disk directory no longer holds "<F>,locked" and F's line of CATALOG.txt
\* starts with a space.
C5_UnlockByDelete ==
    [][\A d \in 1..Len(disks) : \A f \in Entries(disks[d]) :
           (/\ ret'.op = "RemoveAll"
            /\ ret'.name = LockPath(disks, d, f)
            /\ Shown(disks, d)
            /\ Live(disks[d], f) /\ EntryByte(disks[d], f, 2) >= 128)
               => /\ ret'.err = "nil"
                  /\ EntryByte(disks'[d], f, 2) = EntryByte(disks[d], f, 2) - 128
                  /\ snLock(SafeName(disks[d], f))
                         \notin DOMAIN Children(disks', DskDir(d)).kids
                  /\ CatalogLine(disks'[d], f).s[1] = 32]_vars

\* C6: RemoveAll of "/<disk>/<name>", the projection of a catalog entry that
\* is not deleted, succeeds, copies byte 0x00 of the entry into its byte
\* 0x20 and writes 0xFF into byte 0x00, so that IsDeleted() holds
\* afterwards, and changes no other byte of the image.
C6_Delete ==
    [][\A d \in 1..Len(disks) : \A f \in Entries(disks[d]) :
           (/\ ret'.op = "RemoveAll"
            /\ ret'.name = FilePath(disks, d, f)
            /\ Shown(disks, d)
            /\ Live(disks[d], f))
               => /\ ret'.err = "nil"
                  /\ EntryByte(disks'[d], f, 32) = EntryByte(disks[d], f, 0)
                  /\ EntryByte(disks'[d], f, 0) = 255
                  /\ IsDeleted(disks'[d], f)
                  /\ \A n \in DOMAIN disks[d].bytes \cup DOMAIN disks'[d].bytes :
                         \A k \in 0..255 :
                             n * 256 + k \notin {f, f + 32} =>
                                 ByteAt(disks'[d].bytes, n * 256 + k)
                                     = ByteAt(disks[d].bytes, n * 256 + k)]_vars

RECURSIVE CatalogChain(_, _, _)
\* The catalog sectors in chain order from the sector at offset sector on:
\* the sector named by bytes 0x01/0x02 follows, until a sector whose
\* next-track byte is 0.
CatalogChain(dsk, sector, fuel) ==
    IF fuel = 0 \/ ByteAt(dsk.bytes, sector + 1) = 0 THEN <<sector>>
    ELSE <<sector>>
         \o CatalogChain(dsk,
                         (ByteAt(dsk.bytes, sector + 1) * Vtoc(dsk, 53)
                              + ByteAt(dsk.bytes, sector + 2)) * 256,
                         fuel - 1)

\* The offsets of the entries of one catalog sector whose first byte is not
\* zero, in slot order.
UsedSlots(dsk, sector) ==
    SelectSeq(<<sector + 11, sector + 46, sector + 81, sector + 116,
                sector + 151, sector + 186, sector + 221>>,
              LAMBDA f : ByteAt(dsk.bytes, f) # 0)

\* C10: when Catalog() returns, it has started at the sector (VTOC[0x01],
\* VTOC[0x02]), followed bytes 0x01/0x02 from sector to sector up to and
\* including the first sector whose next-track byte is 0, and returns, in
\* that order, exactly the entries at offsets 0x0B, 0x2E, 0x51, 0x74, 0x97,
\* 0xBA, 0xDD of each such sector whose first byte is not 0x00, the ones
\* with first byte 0xFF included.
C10_CatalogWalk ==
    (ret.op = "Catalog" /\ ret.err = "nil") =>
        LET dsk   == disks[ret.h]
            first == (Vtoc(dsk, 1) * Vtoc(dsk, 53) + Vtoc(dsk, 2)) * 256
            chain == CatalogChain(dsk, first, dsk.size \div 256)
        IN  ret.out = Concat([i \in 1..Len(chain) |-> UsedSlots(dsk, chain[i])])

\* C10's case: Catalog has returned the entries of a chain of two sectors
\* with unused slots between them, a deleted entry among them, the last
\* sector linking to (0, 3).
C10_Witness ==
    /\ ret.op = "Catalog"
    /\ ret.err = "nil"
    /\ Len(ret.out) = 4
    /\ \E k \in 1..4 : IsDeleted(disks[ret.h], ret.out[k])
    /\ ret.out[2] \div 256 # ret.out[3] \div 256
    /\ ByteAt(disks[ret.h].bytes, (ret.out[3] \div 256) * 256 + 1) = 0
    /\ ByteAt(disks[ret.h].bytes, (ret.out[3] \div 256) * 256 + 2) = 3

\* C11: the catalog walk and the T/S-list walk both return on every image
\* of a recognized size: a chain that comes back to a sector it has visited
\* (a cycle, or a link back into the VTOC sector) is detected and ends the
\* walk, so neither walk runs forever, and neither visits more sectors than
\* the image has.
C11_WalksTerminate ==
    ret.op \in {"Catalog", "DataSectors"} =>
        /\ ret.err # "loop"
        /\ ret.op = "Catalog" =>
               Len(ret.out) <= Len(entryOffsets) * (disks[ret.h].size \div SectorSize)

RECURSIVE TSChain(_, _, _, _)
\* The offsets of the T/S lists of a file in chain order from the list at
\* (t, s) on, until a next track of zero.
TSChain(dsk, t, s, fuel) ==
    IF t = 0 \/ fuel = 0 THEN <<>>
    ELSE <<(t * Vtoc(dsk, 53) + s) * 256>>
         \o TSChain(dsk, ByteAt(dsk.bytes, (t * Vtoc(dsk, 53) + s) * 256 + 1),
                    ByteAt(dsk.bytes, (t * Vtoc(dsk, 53) + s) * 256 + 2), fuel - 1)

\* The (track, sector) pairs of all the slots of the T/S lists of entry f,
\* 122 for each list, in chain order: slot i is the file's sector i - 1.
FileSlots(dsk, f) ==
    LET chain == TSChain(dsk, ByteAt(dsk.bytes, f + (IF ByteAt(dsk.bytes, f) = 255 THEN 32 ELSE 0)),
                         ByteAt(dsk.bytes, f + 1), dsk.size \div 256)
    IN  [i \in 1..(122 * Len(chain)) |->
            <<ByteAt(dsk.bytes, chain[((i - 1) \div 122) + 1] + 12 + 2 * ((i - 1) % 122)),
              ByteAt(dsk.bytes, chain[((i - 1) \div 122) + 1] + 13 + 2 * ((i - 1) % 122))>>]

\* The sectors of a file with holes: every slot up to the last one that
\* names a sector, a slot of (0, 0) as 256 zero bytes.
SparseSectors(dsk, f) ==
    LET slots == FileSlots(dsk, f)
        used  == {i \in 1..Len(slots) : slots[i][1] # 0}
        last  == IF used = {} THEN 0 ELSE CHOOSE i \in used : \A j \in used : j <= i
    IN  [i \in 1..last |->
            IF slots[i][1] = 0 THEN [b \in 1..256 |-> 0]
            ELSE [b \in 1..256 |->
                     ByteAt(dsk.bytes,
                            (slots[i][1] * Vtoc(dsk, 53) + slots[i][2]) * 256 + b - 1)]]

\* C12: the T/S-list walk of a file that is not a TEXT file does not end at
\* a (0,0) slot that a non-zero slot follows: it yields the hole as 256 zero
\* bytes at its index and the data sector of every later non-zero slot, in
\* order.
C12_SparseHoles ==
    (/\ ret.op = "DataSectors"
     /\ ret.err = "nil"
     /\ ByteAt(disks[ret.h].bytes, ret.node.file + 2) % 128 # 0)
        => ret.out = SparseSectors(disks[ret.h], ret.node.file)

\* A ReadAll of an entry of type Binary or Relocatable has returned.
BinaryRead ==
    /\ ret.op = "ReadAll"
    /\ ret.err = "nil"
    /\ ByteAt(disks[ret.h].bytes, ret.node.file + 2) % 128 \in {4, 16}

\* The bytes of the sectors the T/S-list walk yields for entry f, in order.
YieldedBytes(dsk, f) ==
    Concat([s \in 1..Len(DataSectors(dsk, f).datas) |->
               [b \in 1..256 |-> ByteAt(dsk.bytes, DataSectors(dsk, f).datas[s] + b - 1)]])

\* C13 as the code has it: ReadAll of an entry of type Binary or
\* Relocatable returns nothing when the T/S-list walk yields no sector;
\* otherwise it returns the first four bytes of the first sector yielded
\* (load address, payload length `length`) followed by the next `length`
\* bytes of the sectors yielded, or by all the bytes that follow when they
\* are fewer than `length`: the result has 4 + length bytes exactly when the
\* sectors yielded hold that many.
C13_BinaryRead ==
    BinaryRead =>
        LET all == YieldedBytes(disks[ret.h], ret.node.file)
        IN  IF all = <<>> THEN ret.out = <<>>
            ELSE /\ SubSeq(ret.out, 1, 4) = SubSeq(all, 1, 4)
                 /\ Len(all) >= 4 + all[3] + 256 * all[4] =>
                        /\ Len(ret.out) = 4 + all[3] + 256 * all[4]
                        /\ ret.out = SubSeq(all, 1, 4 + all[3] + 256 * all[4])
                 /\ Len(all) < 4 + all[3] + 256 * all[4] => ret.out = all

\* C13's case: ReadAll has returned the 4 + 300 bytes of a binary file
\* whose payload goes on into its second sector.
C13_Witness ==
    /\ BinaryRead
    /\ Len(ret.out) = 304
    /\ ret.out[3] + 256 * ret.out[4] = 300
    /\ Len(YieldedBytes(disks[ret.h], ret.node.file)) = 512

\* C13 as stated: ReadAll of every entry of type Binary or Relocatable that
\* has a first data sector returns that sector's first four bytes followed
\* by exactly `length` payload bytes: 4 + length bytes in all.
C13_BinaryLength ==
    (BinaryRead /\ FileSlots(disks[ret.h], ret.node.file) # <<>>
                /\ FileSlots(disks[ret.h], ret.node.file)[1][1] # 0) =>
        LET first == SparseSectors(disks[ret.h], ret.node.file)[1]
        IN  /\ Len(ret.out) = 4 + first[3] + 256 * first[4]
            /\ SubSeq(ret.out, 1, 4) = SubSeq(first, 1, 4)

\* C14: for every catalog entry of every type, the bytes ReadAll returns
\* are no more than 256 times the sector count held in bytes 0x21-0x22 of
\* the entry, whatever its T/S lists and header hold.
C14_ReadAllBound ==
    (ret.op = "ReadAll" /\ ret.err = "nil") =>
        Len(ret.out) <= 256 * (ByteAt(disks[ret.h].bytes, ret.node.file + 33)
                                   + 256 * ByteAt(disks[ret.h].bytes, ret.node.file + 34))

\* C15: a stat of a file of an image reports as size 256 times the sector
\* count held in bytes 0x21-0x22 of its entry, for every count from 0 to
\* 65535, computed without wrap-around: a count of 256 gives 65536.
C15_StatSize ==
    (ret.op = "Stat" /\ ret.err = "nil") =>
        LET n == Resolve(disks, RootDir, Components(StripSlashes(ret.name))).node
        IN  n.kind = "dskFile" =>
                ret.info.size = 256 * (ByteAt(disks[n.disk].bytes, n.file + 33)
                                           + 256 * ByteAt(disks[n.disk].bytes, n.file + 34))

\* C16: PathSafe() of the name of any catalog entry, whatever bytes from
\* 0x00 to 0xFF the name field holds, yields only bytes from 0x20 to 0x7E.
C16_PathSafePrintable ==
    ret.op = "PathSafe" => \A i \in 1..Len(ret.out) : ret.out[i] \in 32..126

\* C17: for every sequence of (ASCII character, inverted flag) pairs encoded
\* to Hi-ASCII bytes, Filename.String of the raw bytes gives back the ASCII
\* characters, and the flags are recovered from the same raw bytes: a byte
\* is inverted exactly when its high bit is clear.
C17_FilenameRoundTrip ==
    ret.op = "String" =>
        /\ ret.out = ret.name2
        /\ ret.list = {<<i, ret.name[i] < 128>> : i \in 1..Len(ret.name)}

\* The names entry k of the catalog (in catalog order) may be listed under
\* by the collision policy: its projected name when no earlier entry has
\* that name, the name with the suffix "#<N>" for a collision index N
\* otherwise.
PolicyNames(dsk, entries, k) ==
    IF \A j \in 1..(k - 1) : ListedName(dsk, entries[j]) # ListedName(dsk, entries[k])
    THEN {ListedName(dsk, entries[k])}
    ELSE {ListedName(dsk, entries[k]) \o <<35>> \o Dec(n) : n \in 1..Len(entries)}

\* C18: when two catalog entries of an image project to one name, both are
\* listed: the later one in catalog order under the name with the suffix
\* "#<N>"; so a listing of the disk directory holds as many file entries
\* as the catalog has entries.
C18_CollisionPolicy ==
    DiskListed =>
        LET dsk     == disks[ret.node.disk]
            entries == Catalog(dsk).entries
            names   == UNION {PolicyNames(dsk, entries, k) : k \in 1..Len(entries)}
        IN  /\ \A k \in 1..Len(entries) :
                   \E n \in PolicyNames(dsk, entries, k) :
                       \E i \in ret.list : i.name = n /\ ~i.isDir
            /\ Cardinality({i \in ret.list : i.name \in names /\ ~i.isDir}) = Len(entries)

\* The catalog entries of image dsk in catalog order, read from the chain
\* of catalog sectors.
ChainEntries(dsk) ==
    LET chain == CatalogChain(dsk, (Vtoc(dsk, 1) * Vtoc(dsk, 53) + Vtoc(dsk, 2)) * 256,
                              dsk.size \div 256)
    IN  SelectSeq(Concat([i \in 1..Len(chain) |-> UsedSlots(dsk, chain[i])]),
                  LAMBDA f : ByteAt(dsk.bytes, f) # 255)

\* The bytes of the name field of entry f without the trailing 0xA0s.
FieldName(dsk, f) ==
    LET n == CHOOSE n \in 0..30 :
                 /\ n = 0 \/ ByteAt(dsk.bytes, f + 2 + n) # 160
                 /\ \A m \in (n + 1)..30 : ByteAt(dsk.bytes, f + 2 + m) = 160
    IN  [i \in 1..n |-> ByteAt(dsk.bytes, f + 2 + i)]

\* The letter of file type t: T, I, A, B, S, R, A, B for 0x00, 0x01, 0x02,
\* 0x04, 0x08, 0x10, 0x20, 0x40.
TypeLetter(t) ==
    LET letters == <<84, 73, 65, 66, 83, 82, 65, 66>>
        types   == <<0, 1, 2, 4, 8, 16, 32, 64>>
    IN  letters[CHOOSE k \in 1..8 : types[k] = t]

\* The first part of a line of CATALOG.txt: "*" or a space, the type letter,
\* a space, the number n as three digits, a space.
LineStart(dsk, f, n) ==
    <<IF ByteAt(dsk.bytes, f + 2) >= 128 THEN 42 ELSE 32,
      TypeLetter(ByteAt(dsk.bytes, f + 2) % 128), 32>>
    \o (IF n < 1000 THEN <<48 + (n \div 100), 48 + ((n \div 10) % 10), 48 + (n % 10)>>
        ELSE Dec(n))
    \o <<32>>

\* A name as a terminal shows it: a normal character without its high bit;
\* an inverted one with bit 0x40 set, ESC[47;30m before the first of a run
\* of inverted characters and ESC[0m after the last.
Escaped(name) ==
    Concat([i \in 1..Len(name) |->
               (IF name[i] < 128 /\ (i = 1 \/ name[i - 1] >= 128)
                THEN <<27, 91, 52, 55, 59, 51, 48, 109>>
                ELSE IF name[i] >= 128 /\ i > 1 /\ name[i - 1] < 128
                THEN <<27, 91, 48, 109>>
                ELSE <<>>)
               \o <<IF name[i] >= 128 THEN name[i] - 128
                    ELSE IF name[i] < 64 THEN name[i] + 64 ELSE name[i]>>
               \o (IF i = Len(name) /\ name[i] < 128 THEN <<27, 91, 48, 109>> ELSE <<>>)])

\* "\nDISK VOLUME <VTOC[0x06]>\n\n"
CatalogHead(dsk) ==
    <<10, 68, 73, 83, 75, 32, 86, 79, 76, 85, 77, 69, 32>> \o Dec(Vtoc(dsk, 6)) \o <<10, 10>>

\* The CATALOG.txt files that are open, each with its image.
OpenCatalogs ==
    {<<handles[h].snap[1], disks[handles[h].node.disk]>> :
        h \in {i \in 1..Len(handles) : /\ handles[i].node.kind = "memFile"
                                       /\ handles[i].node.gen = "catalog"}}

\* C19 as the code has it: CATALOG.txt is "\nDISK VOLUME <VTOC[0x06]>\n\n",
\* then in catalog order one line for each entry that is not deleted, and
\* none for a deleted one, then an empty line.  A line is "*" if the entry
\* is locked else a space, the type letter, a space, the sector count
\* modulo 256 as three digits, a space, the name as a terminal shows it
\* (inverted characters between escape codes), a newline.
C19_CatalogText ==
    \A c \in OpenCatalogs :
        c[1] = CatalogHead(c[2])
               \o Concat([k \in 1..Len(ChainEntries(c[2])) |->
                     LineStart(c[2], ChainEntries(c[2])[k],
                               (ByteAt(c[2].bytes, ChainEntries(c[2])[k] + 33)
                                    + 256 * ByteAt(c[2].bytes, ChainEntries(c[2])[k] + 34)) % 256)
                     \o Escaped(FieldName(c[2], ChainEntries(c[2])[k])) \o <<10>>])
               \o <<10>>

\* C19's case: the CATALOG.txt of an image is open whose catalog holds a
\* locked entry, a deleted one, one with inverted characters or one of 256
\* sectors or more.
C19_Witness ==
    \E c \in OpenCatalogs :
        /\ Len(c[1]) > Len(CatalogHead(c[2])) + 1
        /\ \E f \in Entries(c[2]) : ByteAt(c[2].bytes, f) = 255
        /\ \E f \in Entries(c[2]) :
               ByteAt(c[2].bytes, f) # 255 /\ ByteAt(c[2].bytes, f + 2) >= 128
        /\ \E f \in Entries(c[2]) :
               ByteAt(c[2].bytes, f) # 255 /\ ByteAt(c[2].bytes, f + 34) > 0

\* C19 as stated: CATALOG.txt begins with "\nDISK VOLUME <VTOC[0x06]>\n\n"
\* and then has, in catalog order, one line for each entry that is not
\* deleted: "*" if locked else a space, the type letter, a space, the
\* sector count as a zero-padded 3-digit decimal, a space, the name.
C19_CatalogTextAsStated ==
    \A c \in OpenCatalogs :
        LET want == CatalogHead(c[2])
                    \o Concat([k \in 1..Len(ChainEntries(c[2])) |->
                          LineStart(c[2], ChainEntries(c[2])[k],
                                    ByteAt(c[2].bytes, ChainEntries(c[2])[k] + 33)
                                        + 256 * ByteAt(c[2].bytes, ChainEntries(c[2])[k] + 34))
                          \o [i \in 1..Len(FieldName(c[2], ChainEntries(c[2])[k])) |->
                                 FieldName(c[2], ChainEntries(c[2])[k])[i] % 128]
                          \o <<10>>])
        IN  Len(c[1]) >= Len(want) /\ SubSeq(c[1], 1, Len(want)) = want

RECURSIVE TextLines(_)
\* The lines of a text, each without the "\n" that ends it.
TextLines(s) ==
    IF IndexByte(s, 10) = 0 THEN (IF s = <<>> THEN <<>> ELSE <<s>>)
    ELSE <<SubSeq(s, 1, IndexByte(s, 10) - 1)>>
         \o TextLines(SubSeq(s, IndexByte(s, 10) + 1, Len(s)))

\* The cells of a row of the free-sector map: its "." and "X" characters.
RowCells(line) == SelectSeq(line, LAMBDA c : c \in {46, 88})

\* The VTOC.txt files that are open, each with its image.
OpenVtocs ==
    {<<handles[h].snap[1], disks[handles[h].node.disk]>> :
        h \in {i \in 1..Len(handles) : /\ handles[i].node.kind = "memFile"
                                       /\ handles[i].node.gen = "vtoc"}}

\* C20: the free-sector map at the end of VTOC.txt has VTOC[0x34] rows of
\* exactly min(VTOC[0x35], 16) cells each, also when VTOC[0x35] is below 8;
\* the cell of track t and sector s is "." when the bit of s is set (bit s
\* of byte 0x38+4t+1 for s from 0 to 7, bit s-8 of byte 0x38+4t for s from 8
\* to 15) and "X" when it is clear.
C20_FreeSectorMap ==
    \A v \in OpenVtocs :
        LET lines == TextLines(v[1])
            rows  == Vtoc(v[2], 52)
            cols  == IF Vtoc(v[2], 53) < 16 THEN Vtoc(v[2], 53) ELSE 16
        IN  /\ Len(lines) >= rows
            /\ \A t \in 0..(rows - 1) :
                   LET cells == RowCells(lines[Len(lines) - rows + t + 1])
                   IN  /\ Len(cells) = cols
                       /\ \A s \in 0..(cols - 1) :
                              cells[s + 1] = 46
                                  <=> IF s < 8
                                      THEN (Vtoc(v[2], 56 + 4 * t + 1) \div (2 ^ s)) % 2 = 1
                                      ELSE (Vtoc(v[2], 56 + 4 * t) \div (2 ^ (s - 8))) % 2 = 1


\* C21: LoadDiskette of a file whose size is neither 116480 nor 143360
\* returns an error for the unsupported size (it does not panic) and adds
\* no Diskette; the buffer of every loaded Diskette has one of the two sizes.
C21_LoadRejects ==
    /\ \A d \in 1..Len(disks) : disks[d].size \in {d13Size, dskSize}
    /\ (ret.op = "LoadDiskette" /\ ret.h \notin {d13Size, dskSize})
           => ret.err = "UnsupportedImageSize"

\* C22: rawSector(t, s) returns the 256 bytes at (t * spt + s) * 256 when
\* t < NumTracks and s < SectorsPerTrack, and panics for every other
\* (t, s), t = NumTracks and s = SectorsPerTrack included.
C22_RawSectorBounds ==
    ret.op = "rawSector" =>
        \A ts \in ret.list :
            IF ts[1] < NumTracks(disks[ret.h]) /\ ts[2] < SectorsPerTrack(disks[ret.h])
            THEN /\ ret.err = "nil"
                 /\ ret.out = SectorBytes(disks[ret.h],
                                          (ts[1] * SectorsPerTrack(disks[ret.h]) + ts[2])
                                              * SectorSize)
            ELSE ret.err = "panic"


\* C25: a deleted file stays readable: ReadAll of an entry on the image
\* once the entry is deleted (byte 0x20 := byte 0x00, byte 0x00 := 0xFF)
\* ends as ReadAll of the entry did before, with the same bytes; the walk
\* of a deleted entry starts at the T/S list at (byte 0x20, byte 0x01).
C25_DeletedRecoverable ==
    /\ ret.op = "ReadAllDeleted" =>
           /\ ret.err = (IF ReadAll(disks[ret.h], ret.node.file).status = "ok"
                         THEN "nil"
                         ELSE ReadAll(disks[ret.h], ret.node.file).status)
           /\ ret.out = ReadAll(disks[ret.h], ret.node.file).bytes
    /\ (/\ ret.op = "DataSectors"
        /\ ret.err = "nil"
        /\ ret.out # <<>>
        /\ IsDeleted(disks[ret.h], ret.node.file))
           => ret.out[1] =
                  LET dsk == disks[ret.h]
                      tsl == (EntryByte(dsk, ret.node.file, 32) * SectorsPerTrack(dsk)
                                 + EntryByte(dsk, ret.node.file, 1)) * SectorSize
                  IN  SectorBytes(dsk, (ByteAt(dsk.bytes, tsl + 12) * SectorsPerTrack(dsk)
                                           + ByteAt(dsk.bytes, tsl + 13)) * SectorSize)

\* C27: FileEntry.Name returns a part of the name field for every entry
\* that is not empty: at most 30 bytes (29 of a deleted entry), the bytes
\* of the field from its start on; it does not panic, whatever bytes 0x00
\* to 0x02 hold.
C27_NameInField ==
    ret.op = "Name" =>
        /\ ret.err = "nil"
        /\ Len(ret.out) <= (IF IsDeleted(disks[ret.h], ret.node.file) THEN 29 ELSE 30)
        /\ \A i \in 1..Len(ret.out) :
               ret.out[i] = EntryByte(disks[ret.h], ret.node.file, 3 + i - 1)

\* The sectors named by the slots of the T/S lists of entry f when every
\* list is read up to its first slot of track zero, list after list.
ListsYield(dsk, f) ==
    LET slots == FileSlots(dsk, f)
        stop(j) == IF \E i \in 1..122 : slots[(j - 1) * 122 + i][1] = 0
                   THEN CHOOSE i \in 1..122 :
                            /\ slots[(j - 1) * 122 + i][1] = 0
                            /\ \A m \in 1..(i - 1) : slots[(j - 1) * 122 + m][1] # 0
                   ELSE 123
    IN  Concat([j \in 1..(Len(slots) \div 122) |->
                   [i \in 1..(stop(j) - 1) |->
                       SectorBytes(dsk, (slots[(j - 1) * 122 + i][1] * SectorsPerTrack(dsk)
                                            + slots[(j - 1) * 122 + i][2]) * SectorSize)]])

RECURSIVE ScanCodes(_, _, _, _)
\* The text s read from place i on: the escape codes met, in order ("inv"
\* for inverse-on, "reset" for the reset), and the text without them.
ScanCodes(s, i, codes, plain) ==
    IF i > Len(s) THEN [codes |-> codes, plain |-> plain]
    ELSE IF /\ i + Len(escCodeInverse) - 1 <= Len(s)
            /\ SubSeq(s, i, i + Len(escCodeInverse) - 1) = escCodeInverse
    THEN ScanCodes(s, i + Len(escCodeInverse), Append(codes, "inv"), plain)
    ELSE IF /\ i + Len(escCodeReset) - 1 <= Len(s)
            /\ SubSeq(s, i, i + Len(escCodeReset) - 1) = escCodeReset
    THEN ScanCodes(s, i + Len(escCodeReset), Append(codes, "reset"), plain)
    ELSE ScanCodes(s, i + 1, codes, Append(plain, s[i]))

\* The places of a raw name at which a maximal run of inverted bytes starts.
RunStarts(name) ==
    {i \in 1..Len(name) : name[i] < 128 /\ (i = 1 \/ name[i - 1] >= 128)}

\* C26: ANSIEscaped wraps every maximal run of inverted bytes in one pair of
\* inverse-on and reset: the escape codes of its output alternate,
\* starting with inverse-on and ending with a reset, one pair for each run,
\* and the output without the codes is PathSafe of the name.
C26_EscapedRuns ==
    ret.op = "ANSIEscaped" =>
        LET scan == ScanCodes(ret.out, 1, <<>>, <<>>)
        IN  /\ Len(scan.codes) = 2 * Cardinality(RunStarts(ret.name))
            /\ \A i \in 1..Len(scan.codes) :
                   scan.codes[i] = (IF i % 2 = 1 THEN "inv" ELSE "reset")
            /\ scan.plain = PathSafe(ret.name)


\* The path of an open directory.
DirPath(ds, node) ==
    CASE node.kind = "rootDir" -> <<>>
      [] node.kind = "dskDir" -> <<chSlash>> \o ds[node.disk].name
      [] OTHER -> <<chSlash>> \o ds[node.disk].name \o <<chSlash>> \o node.name

\* C28: listing and lookup agree: for every FileInfo a readdir of directory
\* d returns, stat of d + "/" + its name succeeds and returns the same name,
\* size and is-directory flag, also for a catalog name whose path-safe form
\* holds a "/" or is empty.
C28_ListingLookupAgree ==
    (ret.op = "Readdir" /\ ret.err = "nil") =>
        \A info \in ret.list :
            StatResult(disks, DirPath(disks, ret.node) \o <<chSlash>> \o info.name)
                = [err |-> "nil", info |-> info]

\* Image d has a catalog that is walked to its end and holds an entry, not
\* deleted, whose type is none of the eight defined ones; and d is the image
\* the root shows under its name.
OddTypeDisk(ds, d) ==
    /\ Catalog(ds[d]).status = "ok"
    /\ \E f \in Entries(ds[d]) :
           /\ ~IsDeleted(ds[d], f)
           /\ Type(ds[d], f) \notin {ftText, ftIntegerBasic, ftApplesoftBasic, ftBinary,
                                     ftS, ftRelocatable, ftA, ftB}
    /\ Shown(ds, d)

\* The path names the directory of image dsk: its name, or its name and a
\* "/", after any leading "/"s.
AtDisk(dsk, path) ==
    StripSlashes(path) \in {dsk.name, dsk.name \o <<chSlash>>}

\* The path names something below the directory of image dsk: the name, a
\* "/" and more.
BelowDisk(dsk, path) ==
    /\ Len(StripSlashes(path)) > Len(dsk.name) + 1
    /\ SubSeq(StripSlashes(path), 1, Len(dsk.name) + 1) = dsk.name \o <<chSlash>>

\* C30 as the code has it: ReadAll of an entry whose type bits are none of
\* the eight defined ones panics; when such an entry is not deleted, every
\* open and stat of a path below its disk's directory and every readdir of
\* that directory panic, while an open and a stat of the disk's directory
\* itself succeed.
C30_OddTypePanics ==
    /\ (/\ ret.op = "ReadAll"
        /\ Type(disks[ret.h], ret.node.file)
               \notin {ftText, ftIntegerBasic, ftApplesoftBasic, ftBinary,
                       ftS, ftRelocatable, ftA, ftB})
           => ret.err = "panic"
    /\ \A d \in 1..Len(disks) :
           OddTypeDisk(disks, d) =>
               /\ (ret.op \in {"OpenFile", "Stat"} /\ BelowDisk(disks[d], ret.name))
                      => ret.err = "panic"
               /\ (ret.op \in {"OpenFile", "Stat"} /\ AtDisk(disks[d], ret.name))
                      => ret.err = "nil"
               /\ (ret.op = "Readdir" /\ ret.node = DskDir(d)) => ret.err = "panic"

\* A path below a disk with a live entry of an undefined type was opened.
C30_Witness ==
    /\ ret.op = "OpenFile"
    /\ ret.err = "panic"
    /\ \E d \in 1..Len(disks) : OddTypeDisk(disks, d) /\ BelowDisk(disks[d], ret.name)

\* C30 as stated: with a live entry of an undefined type on a disk, every
\* open, stat and readdir of a path at or below that disk panics.
C30_AllPanic ==
    \A d \in 1..Len(disks) :
        OddTypeDisk(disks, d) =>
            /\ (/\ ret.op \in {"OpenFile", "Stat"}
                /\ AtDisk(disks[d], ret.name) \/ BelowDisk(disks[d], ret.name))
                   => ret.err = "panic"
            /\ (ret.op = "Readdir" /\ ret.node.disk = d) => ret.err = "panic"


\* Handler i has the answer of a call of kind op.
Answered(i, op) == ret[i].pc = "done" /\ ret[i].r.op = op

\* The file handler i has open is a disk file.
HasDskFile(i) == handles[i].open /\ handles[i].node.kind = "dskFile"

===========================================================================
